---- MODULE Spec2Model ----
(***************************************************************************)
(* Trade safety gate and reliability supervisor of the PowerSaver trading  *)
(* bot: FailSafeManager, AutoRecoveryManager, HealthMonitor and            *)
(* ReliabilityManager (src/src/utils/reliability_manager.py), RiskManager  *)
(* (src/src/risk_management/risk_manager.py), ProfitGuard                  *)
(* (src/src/utils/profit_verifier.py) and the trading loops of the         *)
(* enhanced and the complete trading engine (src/src/trading).             *)
(*                                                                         *)
(* Each Python object is one record-valued variable whose fields carry the *)
(* attribute names of the source.  Money is in whole dollars, time in      *)
(* whole seconds, confidence in percent.                                   *)
(***************************************************************************)
EXTENDS Integers, Sequences, FiniteSets, TLC

VARIABLES
    now,            \* the wall clock read by time.time()
    fail_safe,      \* FailSafeManager
    all_errors,     \* history: the time of every record_error call, never pruned
    risk_manager,   \* RiskManager
    health_monitor, \* HealthMonitor
    auto_recovery,  \* AutoRecoveryManager
    reliability,    \* ReliabilityManager
    engine,         \* the trading engine
    pc,             \* where the monitoring loop and the trading loop are suspended
    wake,           \* the time at which a sleeping loop is resumed
    crit_streak,    \* history: CRITICAL recoveries since the last HEALTHY observation
    all_critical,   \* history: every health check so far came out CRITICAL
    safety,         \* ComprehensiveSafetySystem and its protection modules
    calculator,     \* RealTimeProfitCalculator
    multi_executor, \* MultiThreadedExecutor and the tasks of its running call
    waiter,         \* the running call of ProfitGuard.wait_for_profit_increase
    submitter,      \* the running bundle submission with retry
    workers,        \* where each concurrent worker of the fail-safe stands
    manager,        \* ReliabilityManager.is_running, monitor_task and its tasks
    ret             \* history: the last operation called and what it returned

\* the reliability supervisor and the loops that drive it
supVars == <<health_monitor, auto_recovery, reliability, engine, pc, wake,
             crit_streak, all_critical>>

\* the objects the trade pipeline works with
toolVars == <<calculator, multi_executor, waiter, submitter, workers, manager>>

vars == <<now, fail_safe, all_errors, risk_manager, supVars, safety, toolVars, ret>>

\* what the calls on one object leave alone
notFailSafe == <<risk_manager, supVars, safety, toolVars>>
notRisk == <<fail_safe, all_errors, supVars, safety, toolVars>>

----------------------------------------------------------------------------
(* Bounds of the model *)

StartTime == 3600       \* clock value at construction (time.time() is far from 0)
MaxTime == 8400         \* the clock stops advancing here
ErrTickStep == 1200     \* clock step between fail-safe calls
MaxErrorCalls == 12     \* record_error calls in one behaviour
MaxActive == 6          \* cap on FailSafeManager.active_trades
MaxLossSeen == 14000    \* cap on FailSafeManager.daily_loss

RecTickStep == 150      \* clock step while the loops run
RecHorizon == 1000      \* the clock of the loops advances this far past StartTime
MaxLog == 5             \* cap on the length of AutoRecoveryManager.recovery_actions
MaxAlerts == 2          \* cap on the length of RiskManager.risk_alerts
MaxTrades == 3          \* cap on RiskManager.total_trades

MaxChecks == 2          \* cap on ComprehensiveSafetySystem.total_checks
MaxSafetyTicks == 2     \* clock steps while the safety system is called

MaxSims == 10           \* cap on the length of SimulationProtection.simulation_results

MaxBlocks == 2          \* cap on the length of ConsensusProtection.block_history

MaxProbes == 4          \* cap on the length of NetworkProtection.request_timestamps

MaxPriceTicks == 1
MaxTasks == 4
MaxBooked == 4          \* cap on RiskManager.total_trades in the pipeline
MaxWaits == 2           \* calls of wait_for_profit_increase in one behaviour
MaxSubmits == 2         \* bundle submissions with retry in one behaviour
NumWorkers == 6         \* concurrent workers on one FailSafeManager
MaxStarts == 3          \* ReliabilityManager.start calls in one behaviour
MaxForkHeight == 110    \* the highest block number arriving on a fork

Profits == {-6000, -4000, 500}   \* profit arguments of record_trade
Amounts == {10000, 100000, 150000}   \* loan amounts asked of the risk manager
Tokens == {"ETH", "USDC", "DAI"}     \* config "tokens"

\* <<cpu, memory, disk>> usage readings of one health check run
HealthyReading == <<45, 60, 70>>
DegradedReading == <<75, 85, 90>>
CriticalReading == <<95, 60, 70>>
Readings == {HealthyReading, DegradedReading, CriticalReading}
EngineReadings == {HealthyReading, CriticalReading}

\* usage readings on both sides of every threshold of the three resource checks
HealthReadings ==
    {<<cpu, memory, disk>> : cpu \in {45, 70, 90, 95}, memory \in {60, 85, 90, 95},
                             disk \in {70, 90, 95, 97}}

\* what calculate_estimated_profit returns: net profit in dollars, confidence
\* in percent; raises marks a call that raises instead of returning
Estimates ==
    {[raises |-> FALSE, net_profit |-> 300, confidence |-> 90],
     [raises |-> FALSE, net_profit |-> 600, confidence |-> 60],
     [raises |-> FALSE, net_profit |-> 600, confidence |-> 90],
     [raises |-> TRUE, net_profit |-> 0, confidence |-> 0]}

----------------------------------------------------------------------------
(* FailSafeManager, reliability_manager.py:238-304 *)

error_window == 3600
max_errors == 10
fs_max_daily_loss == 10000
fs_max_concurrent_trades == 5

FailSafeManager_init ==
    [is_emergency_stopped |-> FALSE,
     trading_enabled |-> TRUE,
     error_count |-> 0,
     last_error_time |-> 0,
     error_history |-> <<>>,
     daily_loss |-> 0,
     active_trades |-> 0]

Abs(x) == IF x < 0 THEN -x ELSE x

Max2(a, b) == IF a >= b THEN a ELSE b

\* variant: an error exactly error_window old still counts
PruneErrors_inclusive(hist, current_time) ==
    SelectSeq(hist, LAMBDA t : current_time - t <= error_window)

\* the list comprehension of record_error: keeps t with current_time - t < error_window
PruneErrors(hist, current_time) ==
    SelectSeq(hist, LAMBDA t : current_time - t < error_window)

trigger_emergency_stop(fs) ==
    IF ~fs.is_emergency_stopped
    THEN [fs EXCEPT !.is_emergency_stopped = TRUE, !.trading_enabled = FALSE]
    ELSE fs

record_error(fs, current_time) ==
    LET hist == Append(PruneErrors(fs.error_history, current_time), current_time)
        fs1 == [fs EXCEPT !.error_history = hist,
                          !.error_count = Len(hist),
                          !.last_error_time = current_time]
    IN  IF fs1.error_count >= max_errors THEN trigger_emergency_stop(fs1) ELSE fs1

\* variant: one trade more than max_concurrent_trades is let through
check_trading_allowed_off_by_one(fs) ==
    IF fs.is_emergency_stopped THEN <<FALSE, "System in emergency stop">>
    ELSE IF ~fs.trading_enabled THEN <<FALSE, "Trading disabled">>
    ELSE IF fs.active_trades > fs_max_concurrent_trades
         THEN <<FALSE, "Max concurrent trades reached">>
    ELSE IF fs.daily_loss >= fs_max_daily_loss
         THEN <<FALSE, "Daily loss limit reached">>
    ELSE <<TRUE, "Trading allowed">>

check_trading_allowed(fs) ==
    IF fs.is_emergency_stopped THEN <<FALSE, "System in emergency stop">>
    ELSE IF ~fs.trading_enabled THEN <<FALSE, "Trading disabled">>
    ELSE IF fs.active_trades >= fs_max_concurrent_trades
         THEN <<FALSE, "Max concurrent trades reached">>
    ELSE IF fs.daily_loss >= fs_max_daily_loss
         THEN <<FALSE, "Daily loss limit reached">>
    ELSE <<TRUE, "Trading allowed">>

\* variant: the stop is triggered only when the loss is over the cap
record_trade_strict(fs, profit) ==
    LET fs1 == [fs EXCEPT !.active_trades = @ + 1,
                          !.daily_loss = IF profit < 0 THEN @ + Abs(profit) ELSE @]
    IN  IF fs1.daily_loss > fs_max_daily_loss THEN trigger_emergency_stop(fs1) ELSE fs1

record_trade(fs, profit) ==
    LET fs1 == [fs EXCEPT !.active_trades = @ + 1,
                          !.daily_loss = IF profit < 0 THEN @ + Abs(profit) ELSE @]
    IN  IF fs1.daily_loss >= fs_max_daily_loss THEN trigger_emergency_stop(fs1) ELSE fs1

complete_trade(fs) == [fs EXCEPT !.active_trades = Max2(0, @ - 1)]

\* variant: the daily reset also re-enables trading
reset_daily_loss_reenabling(fs) ==
    [fs EXCEPT !.daily_loss = 0, !.trading_enabled = TRUE, !.is_emergency_stopped = FALSE]

reset_daily_loss(fs) == [fs EXCEPT !.daily_loss = 0]

\* variant: the re-enable also forgets the errors recorded so far
enable_trading_clearing_history(fs) ==
    [fs EXCEPT !.trading_enabled = TRUE, !.is_emergency_stopped = FALSE,
               !.error_history = <<>>, !.error_count = 0]

enable_trading(fs) == [fs EXCEPT !.trading_enabled = TRUE, !.is_emergency_stopped = FALSE]

disable_trading(fs) == [fs EXCEPT !.trading_enabled = FALSE]

get_safety_status(fs) ==
    [emergency_stopped |-> fs.is_emergency_stopped,
     trading_enabled |-> fs.trading_enabled,
     trading_allowed |-> check_trading_allowed(fs)[1],
     reason |-> check_trading_allowed(fs)[2],
     error_count |-> fs.error_count,
     daily_loss |-> fs.daily_loss,
     active_trades |-> fs.active_trades]

----------------------------------------------------------------------------
(* RiskManager, risk_manager.py:48-220, with the configuration both trading *)
(* engines construct it with                                                *)

max_loan_amount == 100000
rm_max_daily_loss == 10000
rm_max_concurrent_trades == 3

RiskManager_init ==
    [daily_loss |-> 0,
     daily_profit |-> 0,
     active_positions |-> <<>>,
     risk_alerts |-> <<>>,
     is_trading_allowed |-> TRUE,
     total_trades |-> 0,
     successful_trades |-> 0,
     failed_trades |-> 0]

\* _create_alert: the alert is appended; a CRITICAL one switches trading off
create_alert(rm, risk_level, category, t) ==
    LET rm1 == [rm EXCEPT !.risk_alerts =
                    Append(@, [risk_level |-> risk_level, category |-> category,
                               timestamp |-> t])]
    IN  IF risk_level = "CRITICAL" THEN [rm1 EXCEPT !.is_trading_allowed = FALSE] ELSE rm1

\* validate_loan_request: the risk manager after the call and the pair returned
validate_loan_request(rm, token, amount, t) ==
    IF ~rm.is_trading_allowed
    THEN [rm |-> rm,
          val |-> <<FALSE, "Trading temporarily disabled due to risk limits">>]
    ELSE IF amount > max_loan_amount
    THEN [rm |-> create_alert(rm, "HIGH", "LOAN_LIMIT", t),
          val |-> <<FALSE, "Loan amount exceeds maximum limit">>]
    ELSE IF rm.daily_loss > rm_max_daily_loss
    THEN [rm |-> create_alert(rm, "CRITICAL", "DAILY_LIMIT", t),
          val |-> <<FALSE, "Daily loss limit exceeded">>]
    ELSE IF Len(rm.active_positions) >= rm_max_concurrent_trades
    THEN [rm |-> rm, val |-> <<FALSE, "Maximum concurrent trades reached">>]
    ELSE [rm |-> rm, val |-> <<TRUE, "Loan request approved">>]

\* update_position: replaces the position of the same token, else appends
update_position(rm, position) ==
    IF \E i \in DOMAIN rm.active_positions : rm.active_positions[i].token = position.token
    THEN LET i == CHOOSE j \in DOMAIN rm.active_positions :
                    /\ rm.active_positions[j].token = position.token
                    /\ \A k \in 1..(j - 1) : rm.active_positions[k].token # position.token
         IN  [rm EXCEPT !.active_positions[i] = position]
    ELSE [rm EXCEPT !.active_positions = Append(@, position)]

record_trade_result(rm, successful, profit) ==
    IF successful
    THEN [rm EXCEPT !.total_trades = @ + 1,
                    !.successful_trades = @ + 1,
                    !.daily_profit = @ + profit]
    ELSE [rm EXCEPT !.total_trades = @ + 1,
                    !.failed_trades = @ + 1,
                    !.daily_loss = @ + Abs(profit)]

reset_daily_stats(rm) == [rm EXCEPT !.daily_loss = 0, !.daily_profit = 0]

rm_enable_trading(rm) == [rm EXCEPT !.is_trading_allowed = TRUE]

rm_disable_trading(rm) == [rm EXCEPT !.is_trading_allowed = FALSE]

----------------------------------------------------------------------------
(* HealthMonitor, reliability_manager.py:54-188.  The usage readings are    *)
(* inputs; metrics_history is read by no decision and is left out.          *)

cpu_max == 90
memory_max == 90
disk_max == 95
check_interval == 30

HealthMonitor_init == [health_checks |-> <<>>]

check_cpu(usage) ==
    [check_name |-> "CPU Usage",
     status |-> IF usage > cpu_max THEN "critical"
                ELSE IF usage > 70 THEN "degraded" ELSE "healthy"]

check_memory(usage) ==
    [check_name |-> "Memory Usage",
     status |-> IF usage > memory_max THEN "critical"
                ELSE IF usage > 80 THEN "degraded" ELSE "healthy"]

check_disk(usage) ==
    [check_name |-> "Disk Usage",
     status |-> IF usage > disk_max THEN "critical"
                ELSE IF usage > 85 THEN "degraded" ELSE "healthy"]

check_network == [check_name |-> "Network Connectivity", status |-> "healthy"]

check_services == [check_name |-> "Critical Services", status |-> "healthy"]

CountStatus(checks, status) ==
    Cardinality({i \in DOMAIN checks : checks[i].status = status})

\* the last n elements of a list, seq[-n:]
LastN(seq, n) ==
    IF Len(seq) <= n THEN seq ELSE SubSeq(seq, Len(seq) - n + 1, Len(seq))

\* variant: two degraded checks already make the overall health degraded
run_health_checks_two_degraded(reading) ==
    LET checks == <<check_cpu(reading[1]), check_memory(reading[2]),
                    check_disk(reading[3]), check_network, check_services>>
        critical_count == CountStatus(checks, "critical")
        degraded_count == CountStatus(checks, "degraded")
    IN  [health_checks |-> LastN(checks, 10),
         health |-> IF critical_count > 0 THEN "critical"
                    ELSE IF degraded_count >= 2 THEN "degraded"
                    ELSE "healthy"]

\* run_health_checks: the checks it stores and the overall health it returns
run_health_checks(reading) ==
    LET checks == <<check_cpu(reading[1]), check_memory(reading[2]),
                    check_disk(reading[3]), check_network, check_services>>
        critical_count == CountStatus(checks, "critical")
        degraded_count == CountStatus(checks, "degraded")
    IN  [health_checks |-> LastN(checks, 10),
         health |-> IF critical_count > 0 THEN "critical"
                    ELSE IF degraded_count > 2 THEN "degraded"
                    ELSE "healthy"]

\* get_health: the health read off the stored checks
get_health(hm) ==
    IF hm.health_checks = <<>> THEN "unknown"
    ELSE IF CountStatus(hm.health_checks, "critical") > 0 THEN "critical"
    ELSE IF CountStatus(hm.health_checks, "degraded") > 2 THEN "degraded"
    ELSE "healthy"

\* _determine_overall_health: the same over health_checks[-5:]
determine_overall_health(hm) ==
    IF hm.health_checks = <<>> THEN "unknown"
    ELSE IF CountStatus(LastN(hm.health_checks, 5), "critical") > 0 THEN "critical"
    ELSE IF CountStatus(LastN(hm.health_checks, 5), "degraded") > 2 THEN "degraded"
    ELSE "healthy"

----------------------------------------------------------------------------
(* AutoRecoveryManager, reliability_manager.py:191-235 *)

recovery_cooldown == 300
max_retries == 3

AutoRecoveryManager_init ==
    [recovery_actions |-> <<>>, last_recovery |-> 0, retry_count |-> 0]

\* the test that opens check_and_recover
in_cooldown(ar, t) == t - ar.last_recovery < recovery_cooldown

\* variant: one restart more than max_retries before the emergency stop
handle_critical_failure_one_more(ar) ==
    IF ar.retry_count <= max_retries
    THEN [ar |-> [ar EXCEPT !.retry_count = @ + 1], action |-> "restart_service"]
    ELSE [ar |-> ar, action |-> "emergency_stop"]

handle_critical_failure(ar) ==
    IF ar.retry_count < max_retries
    THEN [ar |-> [ar EXCEPT !.retry_count = @ + 1], action |-> "restart_service"]
    ELSE [ar |-> ar, action |-> "emergency_stop"]

\* variant: a degraded system is stopped
handle_degraded_state_stopping(ar) == [ar |-> ar, action |-> "emergency_stop"]

handle_degraded_state(ar) == [ar |-> ar, action |-> "scale_resources"]

\* variant: a degraded observation resets the retry count as well
finish_check_and_recover_resetting(ar, health, t) ==
    IF health = "healthy"
    THEN [ar |-> [ar EXCEPT !.retry_count = 0], action |-> "none"]
    ELSE LET h == IF health = "critical" THEN handle_critical_failure(ar)
                  ELSE IF health = "degraded"
                  THEN handle_degraded_state([ar EXCEPT !.retry_count = 0])
                  ELSE [ar |-> ar, action |-> "none"]
         IN  [ar |-> [h.ar EXCEPT !.recovery_actions =
                            Append(@, [timestamp |-> t, action |-> h.action,
                                       health |-> health]),
                                  !.last_recovery = t],
              action |-> h.action]

\* check_and_recover from the return of run_health_checks to its own return
finish_check_and_recover(ar, health, t) ==
    IF health = "healthy"
    THEN [ar |-> [ar EXCEPT !.retry_count = 0], action |-> "none"]
    ELSE LET h == IF health = "critical" THEN handle_critical_failure(ar)
                  ELSE IF health = "degraded" THEN handle_degraded_state(ar)
                  ELSE [ar |-> ar, action |-> "none"]
         IN  [ar |-> [h.ar EXCEPT !.recovery_actions =
                            Append(@, [timestamp |-> t, action |-> h.action,
                                       health |-> health]),
                                  !.last_recovery = t],
              action |-> h.action]

----------------------------------------------------------------------------
(* The trading engine: the fields and the loop that EnhancedTradingEngine   *)
(* (enhanced_trading_engine.py:55-168) and CompleteAutonomousTradingEngine  *)
(* (complete_trading_engine.py:541-691) have in common                      *)

EngineKinds == {"enhanced", "complete"}

Engine_init(kind) ==
    [kind |-> kind, is_running |-> FALSE, total_profit |-> 0, trades_executed |-> 0,
     trades_skipped |-> 0]

\* ProfitGuard(min_profit_threshold=500.0) and its confidence floor of 0.7
min_profit_threshold == 500
min_confidence == 70

\* variant: the confidence is tested before the profit
verify_profit_before_trade_confidence_first(estimate) ==
    IF estimate.confidence < min_confidence
    THEN [should_execute |-> FALSE, reason |-> "Low confidence score",
          net_profit |-> estimate.net_profit]
    ELSE IF estimate.net_profit < min_profit_threshold
    THEN [should_execute |-> FALSE, reason |-> "Profit below threshold",
          net_profit |-> estimate.net_profit]
    ELSE [should_execute |-> TRUE, reason |-> "Profit verified and exceeds threshold",
          net_profit |-> estimate.net_profit]

\* variant: the confidence is not tested
verify_profit_before_trade_profit_only(estimate) ==
    IF estimate.net_profit < min_profit_threshold
    THEN [should_execute |-> FALSE, reason |-> "Profit below threshold",
          net_profit |-> estimate.net_profit]
    ELSE [should_execute |-> TRUE, reason |-> "Profit verified and exceeds threshold",
          net_profit |-> estimate.net_profit]

\* ProfitGuard.verify_profit_before_trade on the estimate it computed
verify_profit_before_trade(estimate) ==
    IF estimate.net_profit < min_profit_threshold
    THEN [should_execute |-> FALSE, reason |-> "Profit below threshold",
          net_profit |-> estimate.net_profit]
    ELSE IF estimate.confidence < min_confidence
    THEN [should_execute |-> FALSE, reason |-> "Low confidence score",
          net_profit |-> estimate.net_profit]
    ELSE [should_execute |-> TRUE, reason |-> "Profit verified and exceeds threshold",
          net_profit |-> estimate.net_profit]

\* the gates _execute_trade asks and their verdicts: it calls the profit guard
\* and neither the risk manager nor a safety system
GatesAsked(validation) ==
    [risk |-> "not asked",
     profit |-> IF validation.should_execute THEN "approved" ELSE "refused",
     safety |-> "not asked"]

\* _execute_trade: the risk manager after the call and the result returned
execute_trade(kind, rm, outcome) ==
    IF outcome.raises
    THEN [rm |-> record_trade_result(rm, FALSE, 0),
          success |-> FALSE, profit |-> 0, error |-> "exception",
          gates |-> [risk |-> "not asked", profit |-> "raised", safety |-> "not asked"]]
    ELSE LET validation == verify_profit_before_trade(outcome)
         IN  IF ~validation.should_execute
             THEN [rm |-> rm, success |-> FALSE, profit |-> 0,
                   error |-> "Profit verification failed",
                   gates |-> GatesAsked(validation)]
             ELSE [rm |-> IF kind = "enhanced"
                          THEN record_trade_result(rm, TRUE, validation.net_profit)
                          ELSE rm,
                   success |-> TRUE, profit |-> validation.net_profit,
                   error |-> "none",
                   gates |-> GatesAsked(validation)]

\* what the caller of _execute_trade does with the result: the loop of
\* EnhancedTradingEngine (enhanced_trading_engine.py:124-134) and the result
\* loop of _execute_multiple_trades (complete_trading_engine.py:731-746)
book_result(eng, rm, result) ==
    IF result.success
    THEN [eng |-> [eng EXCEPT !.total_profit = @ + result.profit,
                              !.trades_executed = @ + 1],
          rm |-> record_trade_result(rm, TRUE, result.profit)]
    ELSE [eng |-> [eng EXCEPT !.trades_skipped = @ + 1],
          rm |-> record_trade_result(rm, FALSE, result.profit)]

\* _execute_trade on each opportunity and the bookkeeping of each result.  The
\* complete engine runs the _execute_trade calls first and books the results
\* afterwards; the counters only add up, so the order does not show.
RECURSIVE execute_multiple_trades(_, _, _)
execute_multiple_trades(eng, rm, outcomes) ==
    IF outcomes = <<>>
    THEN [eng |-> eng, rm |-> rm, results |-> <<>>]
    ELSE LET result == execute_trade(eng.kind, rm, Head(outcomes))
             booked == book_result(eng, result.rm, result)
             rest == execute_multiple_trades(booked.eng, booked.rm, Tail(outcomes))
         IN  [eng |-> rest.eng, rm |-> rest.rm,
              results |-> <<[success |-> result.success, profit |-> result.profit,
                             error |-> result.error, gates |-> result.gates]>>
                          \o rest.results]

\* variant: the emergency stop of the fail-safe is not acted on
read_safety_status_ignoring_stop(eng, fs) == eng

\* _check_system_health after the recovery branch: the fail-safe status is read
\* and an emergency stop ends the loop
read_safety_status(eng, fs) ==
    IF get_safety_status(fs).emergency_stopped
    THEN [eng EXCEPT !.is_running = FALSE]
    ELSE eng

----------------------------------------------------------------------------
(* ProfitVerifier, src/src/utils/profit_verification.py:38-254.  Amounts are *)
(* whole tokens, prices whole dollars, costs and profits cents, the price    *)
(* impact a percentage, the slippage tolerance basis points, the priority    *)
(* fee gwei.                                                                 *)

min_profit == 10
base_fee_gwei == 20

\* _get_price: the table it answers from; 0 stands for None
get_price(token) ==
    CASE token \in {"ETH", "WETH"} -> 1800
      [] token = "WBTC" -> 42000
      [] token \in {"USDC", "USDT", "DAI"} -> 1
      [] OTHER -> 0

\* _calculate_gross_profit, in cents
calculate_gross_profit(trade, price_in, price_out) ==
    LET amount_usd == trade.amount_in * price_in
        raw == (amount_usd * 100) \div price_out - amount_usd * 100
        gross_profit == IF trade.expected_price_impact > 0
                        THEN (raw * (100 - trade.expected_price_impact)) \div 100
                        ELSE raw
    IN  Max2(0, gross_profit)

\* _calculate_gas_cost, in cents: the base fee with the gas margin of 1.3 plus
\* the priority fee, times the gas limit, at the price of ETH
calculate_gas_cost(gas_limit, priority_fee) ==
    (gas_limit * ((base_fee_gwei * 13) \div 10 + priority_fee)
        * (get_price("ETH") \div 100)) \div 100000

\* _calculate_slippage_cost with the slippage margin of 1.5, in cents
calculate_slippage_cost(amount_usd, slippage_tolerance) ==
    (amount_usd * slippage_tolerance * 15) \div 1000

\* _calculate_loan_fee at FLASH_LOAN_FEE = 0.09%, in cents
calculate_loan_fee(amount_usd) == (amount_usd * 9) \div 100

\* _calculate_confidence, as a percentage: the simulation_result is None, or
\* a result with its outcome and its gas_used
calculate_confidence(trade, simulation, gas_used) ==
    LET base == 50
        with_success == IF simulation = "success" THEN base + 30 ELSE base
        with_gas == IF /\ simulation # "None"
                       /\ gas_used # 0
                       /\ gas_used * 10 < trade.gas_limit * 8
                    THEN with_success + 10 ELSE with_success
        with_impact == IF trade.expected_price_impact > 5
                       THEN with_gas - 20 ELSE with_gas
    IN  Max2(0, IF with_impact < 100 THEN with_impact ELSE 100)

\* verify_profit: the ProfitCheck returned; simulation is "None" or one of
\* "success", "failed" and "reverted"
verify_profit(trade, simulation) ==
    LET price_in == get_price(trade.token_in)
        price_out == get_price(trade.token_out)
    IN  IF price_in = 0 \/ price_out = 0
        THEN [approved |-> FALSE, gross_profit |-> 0, gas_cost |-> 0, slippage_cost |-> 0,
              loan_fee |-> 0, net_profit |-> 0, reasons |-> <<"Failed to get prices">>]
        ELSE LET amount_usd == trade.amount_in * price_in
                 gross_profit == calculate_gross_profit(trade, price_in, price_out)
                 gas_cost == calculate_gas_cost(trade.gas_limit, trade.priority_fee)
                 slippage_cost ==
                     calculate_slippage_cost(amount_usd, trade.slippage_tolerance)
                 loan_fee == calculate_loan_fee(amount_usd)
                 net_profit == gross_profit - gas_cost - slippage_cost - loan_fee
                 reasons ==
                     (IF net_profit < min_profit * 100
                      THEN <<"Net profit below minimum">> ELSE <<>>)
                     \o (IF net_profit * 1000 < amount_usd * 100
                         THEN <<"Profit ratio below minimum">> ELSE <<>>)
                     \o (IF slippage_cost > amount_usd
                         THEN <<"Slippage cost too high">> ELSE <<>>)
                     \o (IF simulation = "failed" THEN <<"Simulation failed">> ELSE <<>>)
                     \o (IF simulation = "reverted"
                         THEN <<"Transaction would revert">> ELSE <<>>)
             IN  [approved |-> reasons = <<>>, gross_profit |-> gross_profit,
                  gas_cost |-> gas_cost, slippage_cost |-> slippage_cost,
                  loan_fee |-> loan_fee, net_profit |-> net_profit,
                  reasons |-> reasons]

----------------------------------------------------------------------------
(* The safety system, src/src/utils/safety_system.py.  A SafetyCheckResult  *)
(* is a record of its level, passed, issues and warnings; issues and        *)
(* warnings are lists of the messages' leading words.  A dict is a function *)
(* whose domain is the set of its keys.                                     *)

SafetyCheckResult(level, passed, issues, warnings) ==
    [level |-> level, passed |-> passed, issues |-> issues, warnings |-> warnings]

EmptyDict == [k \in {} |-> 0]

\* d[k] = v
DictSet(d, k, v) == [x \in DOMAIN d \cup {k} |-> IF x = k THEN v ELSE d[x]]

\* d.get(k, default)
DictGet(d, k, default) == IF k \in DOMAIN d THEN d[k] ELSE default

\* deque(maxlen=n).append(x)
DequeAppend(dq, x, n) == LastN(Append(dq, x), n)

(* ConsensusProtection, safety_system.py:59-128 *)

max_base_fee_spike == 2
\* variant: a parent mismatch is a reorg at any distance from the tracked tip
reorg_threshold_unbounded == MaxForkHeight + MaxForkHeight

reorg_threshold_blocks == 3
timestamp_drift_window == 12

\* last_block_hash before the first block
NoHash == "None"

ConsensusProtection_init ==
    [block_history |-> <<>>, last_block_hash |-> NoHash, base_fee_history |-> <<>>]

\* variant: a parent mismatch is a reorg only under the threshold, not at it
verify_block_state_under_threshold(cp, current_block, current_time) ==
    IF /\ cp.last_block_hash # NoHash
       /\ current_block.parent_hash # cp.last_block_hash
       /\ current_block.block_number
              - cp.block_history[Len(cp.block_history)].block_number
            < reorg_threshold_blocks
    THEN [st |-> cp,
          res |-> SafetyCheckResult("reject", FALSE, <<"REORG DETECTED">>, <<>>)]
    ELSE LET spike == /\ cp.base_fee_history # <<>>
                      /\ current_block.base_fee
                           > cp.base_fee_history[Len(cp.base_fee_history)]
                               * max_base_fee_spike
             drift == Abs(current_time - current_block.timestamp)
                           > timestamp_drift_window * 2
             issues == <<>>
             warnings == (IF spike THEN <<"BASE FEE SPIKE">> ELSE <<>>)
                           \o (IF drift THEN <<"TIMESTAMP DRIFT">> ELSE <<>>)
         IN  [st |-> [block_history |-> DequeAppend(cp.block_history, current_block, 10),
                      last_block_hash |-> current_block.block_hash,
                      base_fee_history |->
                          DequeAppend(cp.base_fee_history, current_block.base_fee, 20)],
              res |-> SafetyCheckResult(
                          IF issues # <<>> THEN "dangerous"
                          ELSE IF warnings # <<>> THEN "warning" ELSE "safe",
                          issues = <<>>, issues, warnings)]

\* variant: a rejected block is recorded as well
verify_block_state_recording_rejects(cp, current_block, current_time) ==
    LET reorg == /\ cp.last_block_hash # NoHash
                 /\ current_block.parent_hash # cp.last_block_hash
                 /\ current_block.block_number
                        - cp.block_history[Len(cp.block_history)].block_number
                      <= reorg_threshold_blocks
        spike == /\ cp.base_fee_history # <<>>
                 /\ current_block.base_fee
                      > cp.base_fee_history[Len(cp.base_fee_history)]
                          * max_base_fee_spike
        drift == Abs(current_time - current_block.timestamp)
                      > timestamp_drift_window * 2
        warnings == (IF spike THEN <<"BASE FEE SPIKE">> ELSE <<>>)
                      \o (IF drift THEN <<"TIMESTAMP DRIFT">> ELSE <<>>)
    IN  [st |-> [block_history |-> DequeAppend(cp.block_history, current_block, 10),
                 last_block_hash |-> current_block.block_hash,
                 base_fee_history |->
                     DequeAppend(cp.base_fee_history, current_block.base_fee, 20)],
         res |-> IF reorg
                 THEN SafetyCheckResult("reject", FALSE, <<"REORG DETECTED">>, <<>>)
                 ELSE SafetyCheckResult(IF warnings # <<>> THEN "warning" ELSE "safe",
                                        TRUE, <<>>, warnings)]

\* verify_block_state: the protection after the call and the result returned
verify_block_state(cp, current_block, current_time) ==
    IF /\ cp.last_block_hash # NoHash
       /\ current_block.parent_hash # cp.last_block_hash
       /\ current_block.block_number
              - cp.block_history[Len(cp.block_history)].block_number
            <= reorg_threshold_blocks
    THEN [st |-> cp,
          res |-> SafetyCheckResult("reject", FALSE, <<"REORG DETECTED">>, <<>>)]
    ELSE LET spike == /\ cp.base_fee_history # <<>>
                      /\ current_block.base_fee
                           > cp.base_fee_history[Len(cp.base_fee_history)]
                               * max_base_fee_spike
             drift == Abs(current_time - current_block.timestamp)
                           > timestamp_drift_window * 2
             issues == <<>>
             warnings == (IF spike THEN <<"BASE FEE SPIKE">> ELSE <<>>)
                           \o (IF drift THEN <<"TIMESTAMP DRIFT">> ELSE <<>>)
         IN  [st |-> [block_history |-> DequeAppend(cp.block_history, current_block, 10),
                      last_block_hash |-> current_block.block_hash,
                      base_fee_history |->
                          DequeAppend(cp.base_fee_history, current_block.base_fee, 20)],
              res |-> SafetyCheckResult(
                          IF issues # <<>> THEN "dangerous"
                          ELSE IF warnings # <<>> THEN "warning" ELSE "safe",
                          issues = <<>>, issues, warnings)]

(* BuilderProtection, safety_system.py:160-257 *)

BuilderProtection_init == [pending_bundles |-> EmptyDict, confirmed_bundles |-> {}]

\* submit_bundle_with_protection: _submit_to_relay succeeds at the first relay
submit_bundle_with_protection(bp, bundle_hash, current_time) ==
    [bp EXCEPT !.pending_bundles = DictSet(@, bundle_hash, current_time)]

\* the pending bundles other than bundle_hash submitted within the last 5 seconds
RecentOtherBundles(bp, bundle_hash, current_time) ==
    {h \in DOMAIN bp.pending_bundles :
        h # bundle_hash /\ current_time - bp.pending_bundles[h] < 5}

\* verify_bundle_not_overwritten: one issue for every recent other bundle
verify_bundle_not_overwritten(bp, bundle_hash, current_time) ==
    LET others == RecentOtherBundles(bp, bundle_hash, current_time)
        issues == [i \in 1..Cardinality(others) |-> "POSSIBLE OVERWRITE"]
        warnings == IF bundle_hash \in bp.confirmed_bundles
                    THEN <<"Bundle already confirmed">> ELSE <<>>
    IN  SafetyCheckResult(IF issues # <<>> THEN "reject" ELSE "safe",
                          issues = <<>>, issues, warnings)

(* TransactionProtection, safety_system.py:260-326 *)

TransactionProtection_init == [pending_nonces |-> EmptyDict, pending_txs |-> EmptyDict]

\* the key f"{from_address}:{nonce}": the nonce is an integer, so the text
\* after the last colon is the nonce and the key names one (address, nonce) pair
PendingKey(from_address, nonce) == <<from_address, nonce>>

\* variant: the expected nonce itself is already too low
verify_transaction_safe_strict(tp, from_address, to_address, data, nonce, current_time) ==
    LET expected_nonce == DictGet(tp.pending_nonces, from_address, nonce)
        pending_key == PendingKey(from_address, nonce)
        conflict == /\ pending_key \in DOMAIN tp.pending_txs
                    /\ \/ tp.pending_txs[pending_key].to # to_address
                       \/ tp.pending_txs[pending_key].data # data
        issues == (IF nonce <= expected_nonce THEN <<"NONCE TOO LOW">> ELSE <<>>)
                      \o (IF conflict THEN <<"NONCE CONFLICT">> ELSE <<>>)
        warnings == IF nonce > expected_nonce + 5 THEN <<"NONCE GAP">> ELSE <<>>
    IN  [st |-> [pending_nonces |-> DictSet(tp.pending_nonces, from_address, nonce + 1),
                 pending_txs |-> DictSet(tp.pending_txs, pending_key,
                                         [to |-> to_address, data |-> data,
                                          timestamp |-> current_time])],
         res |-> SafetyCheckResult(
                     IF issues # <<>> THEN "reject"
                     ELSE IF warnings # <<>> THEN "warning" ELSE "safe",
                     issues = <<>>, issues, warnings)]

\* verify_transaction_safe: the protection after the call and the result returned
verify_transaction_safe(tp, from_address, to_address, data, nonce, current_time) ==
    LET expected_nonce == DictGet(tp.pending_nonces, from_address, nonce)
        pending_key == PendingKey(from_address, nonce)
        conflict == /\ pending_key \in DOMAIN tp.pending_txs
                    /\ \/ tp.pending_txs[pending_key].to # to_address
                       \/ tp.pending_txs[pending_key].data # data
        issues == (IF nonce < expected_nonce THEN <<"NONCE TOO LOW">> ELSE <<>>)
                      \o (IF conflict THEN <<"NONCE CONFLICT">> ELSE <<>>)
        warnings == IF nonce >= expected_nonce /\ nonce > expected_nonce + 5
                    THEN <<"NONCE GAP">> ELSE <<>>
    IN  [st |-> [pending_nonces |-> DictSet(tp.pending_nonces, from_address, nonce + 1),
                 pending_txs |-> DictSet(tp.pending_txs, pending_key,
                                         [to |-> to_address, data |-> data,
                                          timestamp |-> current_time])],
         res |-> SafetyCheckResult(
                     IF issues # <<>> THEN "reject"
                     ELSE IF warnings # <<>> THEN "warning" ELSE "safe",
                     issues = <<>>, issues, warnings)]

(* OracleProtection, safety_system.py:356-423.  Prices are in whole dollars. *)

chainlink_staleness == 300
twap_staleness == 600
max_price_deviation_pct == 5

OracleProtection_init == [oracle_prices |-> EmptyDict, oracle_timestamps |-> EmptyDict]

\* verify_price_fresh: age is the time since the token's price was last verified
verify_price_fresh(op, token, price_data, current_time) ==
    LET tracked == token \in DOMAIN op.oracle_timestamps
        age == IF tracked THEN current_time - op.oracle_timestamps[token] ELSE 0
        old_price == IF token \in DOMAIN op.oracle_prices
                     THEN op.oracle_prices[token].price ELSE 0
        issues ==
            (IF tracked /\ price_data.source = "chainlink" /\ age > chainlink_staleness
             THEN <<"STALE ORACLE">> ELSE <<>>)
            \o (IF tracked /\ price_data.source = "twap" /\ age > twap_staleness
                THEN <<"STALE TWAP">> ELSE <<>>)
        warnings ==
            IF old_price > 0
               /\ Abs(price_data.price - old_price) * 100 > max_price_deviation_pct * old_price
            THEN <<"PRICE DEVIATION">> ELSE <<>>
    IN  [st |-> [oracle_prices |-> DictSet(op.oracle_prices, token, price_data),
                 oracle_timestamps |-> DictSet(op.oracle_timestamps, token, current_time)],
         res |-> SafetyCheckResult(
                     IF issues # <<>> THEN "reject"
                     ELSE IF warnings # <<>> THEN "warning" ELSE "safe",
                     issues = <<>>, issues, warnings)]

(* SimulationProtection, safety_system.py:426-489.  actual_success is "None" *)
(* when no execution result was given.                                      *)

min_success_rate_pct == 80
min_match_rate_pct == 90

SimulationProtection_init == [simulation_results |-> <<>>]

CountResults(results, Test(_)) == Cardinality({i \in DOMAIN results : Test(results[i])})

\* verify_simulation_accuracy: the protection after the call and the result returned
verify_simulation_accuracy(sp, simulated_success, actual_success, current_time) ==
    LET results == DequeAppend(sp.simulation_results,
                               [simulated_success |-> simulated_success,
                                actual_success |-> actual_success,
                                timestamp |-> current_time], 100)
        successful_sims == CountResults(results, LAMBDA r : r.simulated_success)
        matched == CountResults(results,
                       LAMBDA r : /\ r.actual_success # "None"
                                  /\ r.simulated_success = (r.actual_success = "True"))
        total_with_actual == CountResults(results, LAMBDA r : r.actual_success # "None")
        issues == IF /\ Len(results) >= 10
                     /\ successful_sims * 100 < min_success_rate_pct * Len(results)
                  THEN <<"LOW SIMULATION ACCURACY">> ELSE <<>>
        warnings == IF /\ Len(results) >= 10
                       /\ total_with_actual > 0
                       /\ matched * 100 < min_match_rate_pct * total_with_actual
                    THEN <<"SIM/EXEC MISMATCH">> ELSE <<>>
    IN  [st |-> [simulation_results |-> results],
         res |-> SafetyCheckResult(
                     IF issues # <<>> THEN "reject"
                     ELSE IF warnings # <<>> THEN "warning" ELSE "safe",
                     issues = <<>>, issues, warnings)]

(* NetworkProtection, safety_system.py:492-571.  A probe is what the request  *)
(* to the endpoint comes to: kind "timeout", kind "error" (the connection     *)
(* fails), or kind "response" with its status, its latency in milliseconds    *)
(* and its body: "result" with the block number, "no result", or "not json".  *)

max_requests_per_second == 10
max_latency == 1000

NetworkProtection_init ==
    [last_block_from_rpc |-> 0, rpc_healthy |-> TRUE, request_timestamps |-> <<>>]

check_rpc_health(np, probe, current_time) ==
    LET responded == probe.kind = "response"
        has_block == responded /\ probe.body = "result"
        issues ==
            IF probe.kind = "timeout" THEN <<"RPC TIMEOUT">>
            ELSE IF probe.kind = "error" THEN <<"RPC ERROR">>
            ELSE (IF probe.status # 200 THEN <<"RPC ERROR">> ELSE <<>>)
                 \o (IF probe.body = "not json" THEN <<"RPC ERROR">>
                     ELSE IF /\ probe.body = "result"
                             /\ np.last_block_from_rpc > 0
                             /\ probe.block < np.last_block_from_rpc - 1
                     THEN <<"RPC DESYNC">> ELSE <<>>)
        recent_requests == SelectSeq(np.request_timestamps, LAMBDA t : current_time - t < 1)
        warnings ==
            (IF responded /\ probe.latency > max_latency THEN <<"HIGH LATENCY">> ELSE <<>>)
            \o (IF Len(recent_requests) > max_requests_per_second
                THEN <<"RATE LIMIT APPROACHING">> ELSE <<>>)
    IN  [st |-> [last_block_from_rpc |-> IF has_block THEN probe.block
                                         ELSE np.last_block_from_rpc,
                 rpc_healthy |-> issues = <<>>,
                 request_timestamps |-> DequeAppend(np.request_timestamps, current_time, 100)],
         res |-> SafetyCheckResult(
                     IF issues # <<>> THEN "reject"
                     ELSE IF warnings # <<>> THEN "warning" ELSE "safe",
                     issues = <<>>, issues, warnings)]

(* StrategyProtection, safety_system.py:574-617 *)

opportunity_age_threshold == 2

verify_opportunity_timing(opportunity_found_at, execution_time) ==
    LET age == execution_time - opportunity_found_at
        warnings == IF age > opportunity_age_threshold THEN <<"OPPORTUNITY OLD">> ELSE <<>>
        issues == IF age > opportunity_age_threshold * 3
                  THEN <<"OPPORTUNITY EXPIRED">> ELSE <<>>
    IN  SafetyCheckResult(
            IF issues # <<>> THEN "reject"
            ELSE IF warnings # <<>> THEN "warning" ELSE "safe",
            issues = <<>>, issues, warnings)

(* ComprehensiveSafetySystem, safety_system.py:647-737 *)

ComprehensiveSafetySystem_init ==
    [consensus |-> ConsensusProtection_init,
     builder |-> BuilderProtection_init,
     transaction |-> TransactionProtection_init,
     oracle |-> OracleProtection_init,
     simulation |-> SimulationProtection_init,
     network |-> NetworkProtection_init,
     total_checks |-> 0,
     failed_checks |-> 0,
     rejected_trades |-> 0]

\* stands for the result of a sub-check that the context did not ask for
NotRun == SafetyCheckResult("not run", TRUE, <<>>, <<>>)

\* variant: the issues of the strategy check are left out of the verdict
pre_execution_check_no_strategy(ss, context, probe, current_time) ==
    LET keys == DOMAIN context
        c == IF "block_state" \in keys
             THEN verify_block_state(ss.consensus, context.block_state, current_time)
             ELSE [st |-> ss.consensus, res |-> NotRun]
        n == IF "rpc_url" \in keys
             THEN check_rpc_health(ss.network, probe, current_time)
             ELSE [st |-> ss.network, res |-> NotRun]
        tx == IF "tx_params" \in keys
              THEN verify_transaction_safe(ss.transaction,
                       context.tx_params.from_address, context.tx_params.to_address,
                       context.tx_params.data, context.tx_params.nonce, current_time)
              ELSE [st |-> ss.transaction, res |-> NotRun]
        o == IF "price_data" \in keys
             THEN verify_price_fresh(ss.oracle, context.token, context.price_data,
                                     current_time)
             ELSE [st |-> ss.oracle, res |-> NotRun]
        s == IF "opportunity_time" \in keys
             THEN verify_opportunity_timing(context.opportunity_time, current_time)
             ELSE NotRun
        all_issues == c.res.issues \o n.res.issues \o tx.res.issues \o o.res.issues
        all_warnings == c.res.warnings \o n.res.warnings \o tx.res.warnings
                            \o o.res.warnings \o s.warnings
        rejected == all_issues # <<>>
    IN  [st |-> [ss EXCEPT !.consensus = c.st,
                           !.network = n.st,
                           !.transaction = tx.st,
                           !.oracle = o.st,
                           !.total_checks = @ + 1,
                           !.failed_checks = IF rejected THEN @ + 1 ELSE @,
                           !.rejected_trades = IF rejected THEN @ + 1 ELSE @],
         res |-> IF rejected
                 THEN SafetyCheckResult("reject", FALSE, all_issues, all_warnings)
                 ELSE SafetyCheckResult(IF all_warnings = <<>> THEN "safe" ELSE "warning",
                                        TRUE, all_issues, all_warnings),
         ran |-> <<c.res, n.res, tx.res, o.res, s>>]

\* pre_execution_check: the sub-checks whose keys are in the context, in the
\* order consensus, network, transaction, oracle, strategy; probe is what the
\* request of the network check comes to.  Returns the system after the call,
\* the result, and the results of the sub-checks in the order they ran.
pre_execution_check(ss, context, probe, current_time) ==
    LET keys == DOMAIN context
        c == IF "block_state" \in keys
             THEN verify_block_state(ss.consensus, context.block_state, current_time)
             ELSE [st |-> ss.consensus, res |-> NotRun]
        n == IF "rpc_url" \in keys
             THEN check_rpc_health(ss.network, probe, current_time)
             ELSE [st |-> ss.network, res |-> NotRun]
        tx == IF "tx_params" \in keys
              THEN verify_transaction_safe(ss.transaction,
                       context.tx_params.from_address, context.tx_params.to_address,
                       context.tx_params.data, context.tx_params.nonce, current_time)
              ELSE [st |-> ss.transaction, res |-> NotRun]
        o == IF "price_data" \in keys
             THEN verify_price_fresh(ss.oracle, context.token, context.price_data,
                                     current_time)
             ELSE [st |-> ss.oracle, res |-> NotRun]
        s == IF "opportunity_time" \in keys
             THEN verify_opportunity_timing(context.opportunity_time, current_time)
             ELSE NotRun
        all_issues == c.res.issues \o n.res.issues \o tx.res.issues \o o.res.issues
                          \o s.issues
        all_warnings == c.res.warnings \o n.res.warnings \o tx.res.warnings
                            \o o.res.warnings \o s.warnings
        rejected == all_issues # <<>>
    IN  [st |-> [ss EXCEPT !.consensus = c.st,
                           !.network = n.st,
                           !.transaction = tx.st,
                           !.oracle = o.st,
                           !.total_checks = @ + 1,
                           !.failed_checks = IF rejected THEN @ + 1 ELSE @,
                           !.rejected_trades = IF rejected THEN @ + 1 ELSE @],
         res |-> IF rejected
                 THEN SafetyCheckResult("reject", FALSE, all_issues, all_warnings)
                 ELSE SafetyCheckResult(IF all_warnings = <<>> THEN "safe" ELSE "warning",
                                        TRUE, all_issues, all_warnings),
         ran |-> <<c.res, n.res, tx.res, o.res, s>>]

\* the part of a context under the given keys
Restrict(context, keys) == [k \in DOMAIN context \cap keys |-> context[k]]

\* a call of pre_execution_check on any context.  The oracle step reads
\* context["token"] whenever "price_data" is there: without a "token" the
\* KeyError leaves the call after the consensus, network and transaction
\* checks have run and total_checks was counted, and no result is returned.
pre_execution_check_call(ss, context, probe, current_time) ==
    IF "price_data" \in DOMAIN context /\ "token" \notin DOMAIN context
    THEN LET before == pre_execution_check(
                           ss, Restrict(context, {"block_state", "rpc_url", "tx_params"}),
                           probe, current_time)
         IN  [raised |-> "KeyError",
              st |-> [before.st EXCEPT !.failed_checks = ss.failed_checks,
                                       !.rejected_trades = ss.rejected_trades],
              res |-> NotRun]
    ELSE LET r == pre_execution_check(ss, context, probe, current_time)
         IN  [raised |-> "none", st |-> r.st, res |-> r.res]

----------------------------------------------------------------------------
(* RealTimeProfitCalculator, src/src/utils/profit_verifier.py:47-310.      *)
(* Amounts and prices are whole dollars, costs and profits cents, the      *)
(* slippage tolerance basis points, gas prices gwei, the confidence a      *)
(* percentage.  What the sources of one call answer is its env: live is    *)
(* the blockchain_data given to the constructor ("absent" when none was    *)
(* given, as in ProfitGuard), gecko is CoinGecko, etherscan the gas        *)
(* oracle.                                                                 *)

cache_ttl == 5
gas_units == 300000

RealTimeProfitCalculator_init ==
    [price_cache |-> EmptyDict, gas_price_cache |-> 0, last_gas_update |-> 0]

\* the prices blockchain_data answers with
LivePrice(token) ==
    CASE token = "ETH" -> 2000
      [] token = "USDC" -> 1
      [] token = "UNI" -> 8
      [] token = "LINK" -> 15
      [] OTHER -> 0

\* the prices CoinGecko answers with; 0.0 for a token without an id
GeckoPrice(token) ==
    CASE token = "ETH" -> 1900
      [] token = "USDC" -> 1
      [] token = "UNI" -> 7
      [] token = "LINK" -> 16
      [] OTHER -> 0

\* the last resort of _get_token_price
base_prices(token) ==
    CASE token \in {"ETH", "WETH"} -> 1800
      [] token = "WBTC" -> 42000
      [] token \in {"USDC", "USDT", "DAI"} -> 1
      [] token = "LINK" -> 15
      [] token = "UNI" -> 7
      [] token = "AAVE" -> 100
      [] OTHER -> 1

\* the entries of price_cache a call at current_time can still read: a key
\* holds the five-second bucket it was written in, and time never goes back
LiveEntries(price_cache, current_time) ==
    [k \in {x \in DOMAIN price_cache : x[2] = current_time \div cache_ttl}
        |-> price_cache[k]]

\* _get_token_price: the cached price of the five-second bucket, else the
\* live price, else CoinGecko's, else the base price; an exception of
\* blockchain_data skips CoinGecko
get_token_price(calc, token, env, current_time) ==
    LET cache_key == <<token, current_time \div cache_ttl>>
        price == IF env.live = "ok" /\ LivePrice(token) > 0 THEN LivePrice(token)
                 ELSE IF env.live = "raises" THEN base_prices(token)
                 ELSE IF env.gecko = "ok" /\ GeckoPrice(token) > 0
                      THEN GeckoPrice(token)
                 ELSE base_prices(token)
    IN  IF cache_key \in DOMAIN calc.price_cache
        THEN [st |-> calc, res |-> calc.price_cache[cache_key]]
        ELSE [st |-> [calc EXCEPT !.price_cache =
                        DictSet(LiveEntries(@, current_time), cache_key, price)],
              res |-> price]

\* _calculate_arbitrage_profit over _getDexPrice, in cents: with
\* a = price(token_out) / price(token_in) and b = price(token_in) / price(token_out)
\* the gross profit is amount_in * |a - b| / a; both are positive, so the
\* fallback spread is never used
calculate_arbitrage_profit(calc, token_in, token_out, amount_in, env, current_time) ==
    LET o == get_token_price(calc, token_out, env, current_time)
        i == get_token_price(o.st, token_in, env, current_time)
        price_out == o.res
        price_in == i.res
    IN  [st |-> i.st,
         res |-> (amount_in * 100 * Abs(price_out * price_out - price_in * price_in))
                    \div (price_out * price_out)]

\* the gas price blockchain_data and the gas oracle answer with, and the default
LiveGas == 40
EtherscanGas == 25
DefaultGas == 30

\* _calculate_gas_cost, in cents
calculate_gas_cost_usd(calc, env, current_time) ==
    LET refreshed ==
            IF current_time - calc.last_gas_update > 15
            THEN IF env.live = "raises"
                 THEN [calc EXCEPT !.gas_price_cache = IF @ = 0 THEN DefaultGas ELSE @]
                 ELSE LET live == IF env.live = "ok"
                                  THEN [calc EXCEPT !.gas_price_cache = LiveGas,
                                                    !.last_gas_update = current_time]
                                  ELSE calc
                      IN  IF live.gas_price_cache = 0
                          THEN [live EXCEPT !.gas_price_cache =
                                    IF env.etherscan = "ok" THEN EtherscanGas
                                    ELSE DefaultGas]
                          ELSE live
            ELSE calc
        eth == get_token_price(refreshed, "ETH", env, current_time)
    IN  [st |-> eth.st,
         res |-> ((gas_units \div 100000) * refreshed.gas_price_cache * eth.res) \div 100]

\* _calculate_confidence, as a percentage
estimate_confidence(amount, price_in, price_out, slippage) ==
    LET for_amount == IF amount > 50000 THEN 100 - 20
                      ELSE IF amount > 20000 THEN 100 - 10 ELSE 100
        for_slippage == IF slippage > 100 THEN for_amount - 15
                        ELSE IF slippage > 50 THEN for_amount - 5 ELSE for_amount
        for_ratio == IF Abs(price_in - price_out) * 10 > Max2(price_in, price_out)
                     THEN for_slippage - 10 ELSE for_slippage
    IN  Max2(50, for_ratio)

\* variant: the slippage cost is left out of the net profit
calculate_estimated_profit_no_slippage(calc, token_in, token_out, amount_in, slippage_tolerance, env, current_time) ==
    LET direct == env.live = "ok"
        pin == get_token_price(calc, token_in, env, current_time)
        pout == get_token_price(pin.st, token_out, env, current_time)
        price_in == IF direct THEN LivePrice(token_in) ELSE pin.res
        price_out == IF direct THEN LivePrice(token_out) ELSE pout.res
        priced == IF direct THEN calc ELSE pout.st
        gross == calculate_arbitrage_profit(priced, token_in, token_out, amount_in,
                                            env, current_time)
        gas == calculate_gas_cost_usd(gross.st, env, current_time)
        protocol_fee == (amount_in * 9) \div 100
    IN  [st |-> gas.st,
         res |-> [estimated_profit |-> gross.res, gas_cost |-> gas.res,
                  protocol_fee |-> protocol_fee,
                  net_profit |-> gross.res - gas.res - protocol_fee,
                  confidence |-> estimate_confidence(amount_in, price_in, price_out,
                                                     slippage_tolerance)]]

\* calculate_estimated_profit: the ProfitEstimate returned.  With a
\* blockchain_data that answers the two prices are its own; otherwise, and
\* when it raises, they come from _get_token_price.
calculate_estimated_profit(calc, token_in, token_out, amount_in, slippage_tolerance, env, current_time) ==
    LET direct == env.live = "ok"
        pin == get_token_price(calc, token_in, env, current_time)
        pout == get_token_price(pin.st, token_out, env, current_time)
        price_in == IF direct THEN LivePrice(token_in) ELSE pin.res
        price_out == IF direct THEN LivePrice(token_out) ELSE pout.res
        priced == IF direct THEN calc ELSE pout.st
        gross == calculate_arbitrage_profit(priced, token_in, token_out, amount_in,
                                            env, current_time)
        gas == calculate_gas_cost_usd(gross.st, env, current_time)
        protocol_fee == (amount_in * 9) \div 100
        slippage_cost == (amount_in * slippage_tolerance) \div 100
    IN  [st |-> gas.st,
         res |-> [estimated_profit |-> gross.res, gas_cost |-> gas.res,
                  protocol_fee |-> protocol_fee,
                  net_profit |-> gross.res - gas.res - protocol_fee - slippage_cost,
                  confidence |-> estimate_confidence(amount_in, price_in, price_out,
                                                     slippage_tolerance)]]

----------------------------------------------------------------------------
(* ReliabilityManager.start, stop and the tasks of _monitoring_loop,        *)
(* reliability_manager.py:307-338.  tasks holds every task start() has      *)
(* created, by where its coroutine is suspended; monitor_task is the index  *)
(* of the task the attribute refers to, 0 for None.                         *)

ReliabilityManager_init == [is_running |-> FALSE, monitor_task |-> 0, tasks |-> <<>>]

\* a task whose loop has neither left its while nor been cancelled
Active == {"created", "health", "recover", "sleep"}

\* start: is_running = True and a new task in monitor_task
manager_start(m) ==
    [m EXCEPT !.is_running = TRUE, !.tasks = Append(@, "created"),
              !.monitor_task = Len(m.tasks) + 1]

\* stop: is_running = False and monitor_task.cancel(); the CancelledError is
\* thrown into the task at the await it is suspended in, and the loop breaks
manager_stop(m) ==
    IF m.monitor_task # 0 /\ m.tasks[m.monitor_task] \in Active
    THEN [m EXCEPT !.is_running = FALSE, !.tasks[m.monitor_task] = "cancelled"]
    ELSE [m EXCEPT !.is_running = FALSE]

\* the while test of _monitoring_loop
monitoring_while(m) == IF m.is_running THEN "health" ELSE "done"

----------------------------------------------------------------------------
(* Workers of one FailSafeManager, reliability_manager.py:268-287.  A       *)
(* worker asks check_trading_allowed, and when allowed calls record_trade,  *)
(* runs its trade and calls complete_trade.  The three methods have no      *)
(* await, so each call is one step; the workers are tasks that may be       *)
(* switched between the calls.                                              *)

Workers_init == [w \in 1..NumWorkers |-> "idle"]

\* the profits the workers record
WorkerProfits == {500, -4000}

\* the worker after its check_trading_allowed call
worker_checked(fs) == IF check_trading_allowed(fs)[1] THEN "allowed" ELSE "refused"

----------------------------------------------------------------------------
(* Bundle submission with retry: BuilderProtection.submit_bundle_with_      *)
(* protection, src/src/utils/safety_system.py:188-217, and BundleRetry.     *)
(* send_with_retry, src/src/utils/private_routing.py:429-454.  Each is a    *)
(* coroutine; one step runs to the next await: a submission to one relay,   *)
(* or the sleep before the next attempt.  What a relay answers is its own:  *)
(* the _submit_to_relay of the source always answers success, and           *)
(* FlashbotsRelay.send_bundle turns every exception into a refusal.         *)

\* BuilderProtection.relays, retry_delay and BundleRetry.base_delay
NumRelays == 2
retry_delay == 2
base_delay == 1

\* attempt is the loop variable, relay the position in self.relays;
\* attempts and accepted are history: the attempts begun and the
\* acceptances received in this call
BundleSubmit_init ==
    [pc |-> "idle", who |-> "builder", bundle_hash |-> "b1", max_retries |-> 0,
     attempt |-> 0, relay |-> 1, attempts |-> 0, accepted |-> 0, success |-> FALSE,
     errors |-> 0, delay |-> 0, calls |-> 0]

\* the call up to its first await: range(max_retries) may be empty
retry_call(s, who, bundle_hash, retries) ==
    [s EXCEPT !.who = who, !.bundle_hash = bundle_hash, !.max_retries = retries,
              !.attempt = 0, !.relay = 1, !.accepted = 0, !.success = FALSE,
              !.errors = 0, !.delay = 0, !.calls = @ + 1,
              !.attempts = IF retries > 0 THEN 1 ELSE 0,
              !.pc = IF retries > 0 THEN "attempt" ELSE "done"]

\* the for loop takes its next attempt or is exhausted
next_attempt(s) ==
    IF s.attempt + 1 >= s.max_retries
    THEN [s EXCEPT !.attempt = @ + 1, !.pc = "done"]
    ELSE [s EXCEPT !.attempt = @ + 1, !.relay = 1, !.attempts = @ + 1,
                   !.pc = "attempt"]

\* variant: neither break is taken after a relay accepted
submit_to_relay_answer_no_break(s, answer) ==
    CASE answer = "accepts" ->
            IF s.relay < NumRelays
            THEN [s EXCEPT !.accepted = @ + 1, !.success = TRUE, !.relay = @ + 1]
            ELSE next_attempt([s EXCEPT !.accepted = @ + 1, !.success = TRUE])
      [] answer = "rejects" ->
            IF s.relay < NumRelays THEN [s EXCEPT !.relay = @ + 1]
            ELSE next_attempt(s)
      [] OTHER ->
            [s EXCEPT !.errors = @ + 1, !.delay = retry_delay * (s.attempt + 1),
                      !.pc = "sleep"]

\* submit_bundle_with_protection after the answer of one relay: an acceptance
\* leaves both loops, a refusal goes on with the next relay and after the
\* last relay with the next attempt, without a sleep; an exception ends the
\* attempt, is noted in errors and is followed by the sleep
submit_to_relay_answer(s, answer) ==
    CASE answer = "accepts" ->
            [s EXCEPT !.accepted = @ + 1, !.success = TRUE, !.pc = "done"]
      [] answer = "rejects" ->
            IF s.relay < NumRelays THEN [s EXCEPT !.relay = @ + 1]
            ELSE next_attempt(s)
      [] OTHER ->
            [s EXCEPT !.errors = @ + 1, !.delay = retry_delay * (s.attempt + 1),
                      !.pc = "sleep"]

\* send_with_retry after the answer of flashbots.send_bundle: a refusal is
\* followed by the sleep of base_delay * 2 ** attempt, after the last attempt too
send_bundle_answer(s, answer) ==
    IF answer = "accepts"
    THEN [s EXCEPT !.accepted = @ + 1, !.success = TRUE, !.pc = "done"]
    ELSE [s EXCEPT !.delay = base_delay * 2 ^ s.attempt, !.pc = "sleep"]

----------------------------------------------------------------------------
(* ProfitGuard.wait_for_profit_increase, src/src/utils/profit_verifier.py   *)
(* 387-415.  The call is a coroutine: one step runs from the while test to  *)
(* the next await asyncio.sleep(10), to the return or to the exception.     *)

poll_interval == 10

\* the local variable estimate before its first assignment holds nothing;
\* bound tells whether it was assigned
NoEstimate ==
    [estimated_profit |-> 0, gas_cost |-> 0, protocol_fee |-> 0, net_profit |-> 0,
     confidence |-> 0]

ProfitWait_init ==
    [pc |-> "idle", start_time |-> 0, max_wait_time |-> 0, token_in |-> "USDC",
     token_out |-> "USDC", amount |-> 0, bound |-> FALSE, estimate |-> NoEstimate,
     ok |-> FALSE, polls |-> <<>>, calls |-> 0]

\* start_time = time.time(), before the first while test
wait_for_profit_increase_call(w, token_in, token_out, amount, max_wait_time, current_time) ==
    [w EXCEPT !.pc = "while", !.start_time = current_time,
              !.max_wait_time = max_wait_time, !.token_in = token_in,
              !.token_out = token_out, !.amount = amount, !.bound = FALSE,
              !.estimate = NoEstimate, !.ok = FALSE, !.polls = <<>>,
              !.calls = @ + 1]

\* the while test and, when it passes, one poll with the default slippage
\* tolerance of 0.005; when it fails, return False, estimate reads the local
\* variable, which raises UnboundLocalError if no poll has assigned it.
\* polls is the history of the net profits polled in this call.
wait_for_profit_increase_while(w, calc, env, current_time) ==
    IF current_time - w.start_time < w.max_wait_time
    THEN LET r == calculate_estimated_profit(calc, w.token_in, w.token_out, w.amount,
                                             50, env, current_time)
         IN  [calc |-> r.st,
              w |-> [w EXCEPT !.bound = TRUE, !.estimate = r.res,
                              !.polls = Append(@, r.res.net_profit),
                              !.ok = r.res.net_profit >= min_profit_threshold * 100,
                              !.pc = IF r.res.net_profit >= min_profit_threshold * 100
                                     THEN "returned" ELSE "sleep"]]
    ELSE [calc |-> calc,
          w |-> [w EXCEPT !.ok = FALSE,
                          !.pc = IF w.bound THEN "returned" ELSE "raised"]]

----------------------------------------------------------------------------
(* MultiThreadedExecutor, src/src/trading/complete_trading_engine.py:66-83. *)
(* The event loop runs one task at a time and switches at an await only:    *)
(* entering the semaphore and counting the task is one step, the end of     *)
(* task() with the finally clause and the release is another.               *)

max_concurrent == 3

\* how a limited_execute ends
Finished == {"returned", "raised", "cancelled"}

MultiThreadedExecutor_init ==
    [semaphore |-> max_concurrent, active_tasks |-> 0, tasks |-> <<>>]

\* async with self.semaphore, then self.active_tasks += 1: the task waits
\* while no permit is free
limited_execute_enter(ex, t) ==
    IF ex.semaphore > 0
    THEN [ex EXCEPT !.semaphore = @ - 1, !.active_tasks = @ + 1,
                    !.tasks[t] = "running"]
    ELSE [ex EXCEPT !.tasks[t] = "waiting"]

\* variant: the count is taken back after a normal return only
limited_execute_exit_no_finally(ex, t, outcome) ==
    [ex EXCEPT !.active_tasks = IF outcome = "returned" THEN @ - 1 ELSE @,
               !.semaphore = @ + 1,
               !.tasks[t] = outcome]

\* task() ends: the finally clause takes the count back and the with block
\* releases the permit, whatever the outcome
limited_execute_exit(ex, t, outcome) ==
    [ex EXCEPT !.active_tasks = @ - 1,
               !.semaphore = @ + 1,
               !.tasks[t] = outcome]

----------------------------------------------------------------------------
(* Inputs of the safety system *)

\* a block, its child with a base fee over twice as high, and a block at the
\* child's height and one far ahead whose parents are not the tracked tip
BlockA == [block_number |-> 100, block_hash |-> "hA", base_fee |-> 10,
           timestamp |-> StartTime, parent_hash |-> "h0"]
BlockB == [block_number |-> 101, block_hash |-> "hB", base_fee |-> 30,
           timestamp |-> StartTime, parent_hash |-> "hA"]
BlockC == [block_number |-> 101, block_hash |-> "hC", base_fee |-> 10,
           timestamp |-> StartTime, parent_hash |-> "hX"]

\* transactions of one sender: two with the same nonce and different
\* destinations, and the next nonce
TxA == [from_address |-> "0xA", to_address |-> "0xB", data |-> "d1", nonce |-> 7,
        chain_id |-> 1]
TxB == [from_address |-> "0xA", to_address |-> "0xC", data |-> "d1", nonce |-> 7,
        chain_id |-> 1]

\* price data: the source, the price, and the time the source published it
PriceChainlink == [source |-> "chainlink", price |-> 2000, timestamp |-> StartTime]
PriceTwap == [source |-> "twap", price |-> 2200, timestamp |-> StartTime]

\* what a request to the endpoint comes to
ProbeOk(block) == [kind |-> "response", status |-> 200, latency |-> 100,
                   body |-> "result", block |-> block]
ProbeSlow == [kind |-> "response", status |-> 200, latency |-> 1500,
              body |-> "result", block |-> 100]
ProbeBadStatus == [kind |-> "response", status |-> 500, latency |-> 100,
                   body |-> "not json", block |-> 0]
ProbeTimeout == [kind |-> "timeout", status |-> 0, latency |-> 0, body |-> "none",
                 block |-> 0]
ProbeError == [kind |-> "error", status |-> 0, latency |-> 0, body |-> "none",
               block |-> 0]

GateProbes == {ProbeOk(100), ProbeOk(98), ProbeSlow, ProbeTimeout}

\* contexts of pre_execution_check: none, one, some and all of the five keys
\* it looks for
Contexts ==
    {[token |-> "ETH"],
     [block_state |-> BlockA],
     [block_state |-> BlockB],
     [block_state |-> BlockC],
     [rpc_url |-> "http://rpc"],
     [tx_params |-> TxA],
     [tx_params |-> TxB],
     [token |-> "ETH", price_data |-> PriceChainlink],
     [token |-> "ETH", price_data |-> PriceTwap],
     [opportunity_time |-> StartTime - 1],
     [opportunity_time |-> StartTime - 3],
     [opportunity_time |-> StartTime - 7],
     [block_state |-> BlockB, opportunity_time |-> StartTime - 3],
     [tx_params |-> TxB, opportunity_time |-> StartTime - 7],
     [block_state |-> BlockA, rpc_url |-> "http://rpc", tx_params |-> TxA,
      token |-> "ETH", price_data |-> PriceChainlink,
      opportunity_time |-> StartTime - 1],
     [block_state |-> BlockC, rpc_url |-> "http://rpc", tx_params |-> TxB,
      token |-> "ETH", price_data |-> PriceTwap,
      opportunity_time |-> StartTime - 7]}

\* contexts a caller may hand over, some with price_data and no token
AnyContexts ==
    {[block_state |-> BlockA],
     [tx_params |-> TxA, opportunity_time |-> StartTime - 7],
     [token |-> "ETH", price_data |-> PriceChainlink],
     [price_data |-> PriceChainlink],
     [block_state |-> BlockB, tx_params |-> TxB, price_data |-> PriceTwap],
     [rpc_url |-> "http://rpc", price_data |-> PriceTwap,
      opportunity_time |-> StartTime - 1]}

BundleHashes == {"b1", "b2"}

\* contexts that also name the bundle of the trade; pre_execution_check looks
\* for no such key
GateContexts ==
    {[bundle_hash |-> "b1"],
     [bundle_hash |-> "b1", rpc_url |-> "http://rpc", opportunity_time |-> StartTime - 7]}

\* (simulation success, execution success) pairs given to
\* verify_simulation_accuracy; "None" when no execution result is given
FailedSimulations == {<<FALSE, "None">>}

\* blocks at the tip height, at the reorg threshold above it and one past the
\* threshold, with either hash as parent
Blocks ==
    {[block_number |-> n, block_hash |-> hf[1], base_fee |-> hf[2],
      timestamp |-> StartTime, parent_hash |-> parent] :
        n \in {100, 103, 104}, hf \in {<<"hA", 10>>, <<"hB", 30>>},
        parent \in {"hA", "hB"}}

\* the hash of the block of a fork at height n
ForkHash(n) ==
    <<"f0", "f1", "f2", "f3", "f4", "f5", "f6", "f7", "f8", "f9", "f10", "f11",
      "f12", "f13", "f14", "f15">>[(n % 16) + 1]

\* the block that follows block on its fork
ForkBlock(block) ==
    [block_number |-> block.block_number + 1,
     block_hash |-> ForkHash(block.block_number + 1),
     base_fee |-> block.base_fee, timestamp |-> StartTime,
     parent_hash |-> block.block_hash]

\* price data at time t: published now or 400 seconds ago, at three prices of
\* which the second is 5% and the third 10% over the first
Prices(t) ==
    {[source |-> source, price |-> price, timestamp |-> published] :
        source \in {"chainlink", "twap"}, price \in {2000, 2100, 2200},
        published \in {t, t - 400}}

\* transactions of sender 0xA at three nonces in a row and one far ahead, to
\* either of two destinations, and one transaction of sender 0xB
Transactions ==
    {[from_address |-> "0xA", to_address |-> to, data |-> "d1", nonce |-> nonce,
      chain_id |-> 1] : to \in {"0xB", "0xC"}, nonce \in {7, 8, 9, 15}}
    \cup {[from_address |-> "0xB", to_address |-> "0xC", data |-> "d2", nonce |-> 7,
           chain_id |-> 1]}

\* a failed simulation, and a successful one whose execution succeeded or failed
Simulations == {<<FALSE, "None">>, <<TRUE, "True">>, <<TRUE, "False">>}

\* a response without a block number
ProbeNoResult == [kind |-> "response", status |-> 200, latency |-> 100,
                  body |-> "no result", block |-> 0]

\* probes: the chain head at 100, one block and two blocks behind it, and the
\* ways a probe fails
NetworkProbes ==
    {ProbeOk(100), ProbeOk(99), ProbeOk(98), ProbeSlow, ProbeNoResult, ProbeBadStatus,
     ProbeTimeout, ProbeError}

----------------------------------------------------------------------------
(* Inputs of the profit verification *)

\* estimates on both sides of the profit threshold and of the confidence floor
GuardEstimates ==
    {[raises |-> FALSE, net_profit |-> net_profit, confidence |-> confidence] :
        net_profit \in {-100, 0, 499, 500, 501, 600}, confidence \in {60, 70, 90}}

\* trades of positive amounts between known tokens and an unknown one
Trades ==
    {[token_in |-> token_in, token_out |-> token_out, amount_in |-> amount_in,
      expected_price_impact |-> impact, gas_limit |-> 300000, priority_fee |-> 2,
      slippage_tolerance |-> tolerance] :
        token_in \in {"ETH", "USDC", "XYZ"}, token_out \in {"ETH", "USDC", "XYZ"},
        amount_in \in {1, 10}, impact \in {0, 10}, tolerance \in {50, 100}}

SimulationOutcomes == {"None", "success", "failed", "reverted"}

\* gas_used of a simulation result: 0 stands for a result without the key
GasUsed == {0, 200000, 290000}

\* what the price and gas sources of one calculation answer
Envs ==
    {[live |-> "absent", gecko |-> web, etherscan |-> web] : web \in {"ok", "fails"}}
    \cup {[live |-> live, gecko |-> "ok", etherscan |-> "ok"] :
            live \in {"ok", "none", "raises"}}

\* the same sources, all answering
Answering(env) ==
    [live |-> IF env.live = "absent" THEN "absent" ELSE "ok", gecko |-> "ok",
     etherscan |-> "ok"]

\* the trades the calculator is asked about: sizes on both sides of 20000 and
\* 50000, slippage tolerances on both sides of 0.5% and 1%
\* config "max_bundle_retries" and BundleRetry(max_retries); 3 is the default
MaxRetriesGiven == {0, 1, 3}

\* what a relay does with a bundle
RelayAnswers == {"accepts", "rejects", "raises"}

\* the calculator ProfitGuard constructs has no blockchain_data
WaitEnvs == {env \in Envs : env.live = "absent"}

\* the opportunities waited on and the timeouts given, in seconds
WaitTrades ==
    {[token_in |-> "USDC", token_out |-> token_out, amount |-> amount] :
        token_out \in {"USDC", "UNI"}, amount \in {528, 10000}}

MaxWaitTimes == {-10, 0, 10, 25}

CalculatorTrades ==
    {[token_in |-> token_in, token_out |-> token_out, amount_in |-> size[1],
      slippage_tolerance |-> size[2]] :
        token_in \in {"USDC", "UNI"}, token_out \in {"USDC", "UNI"},
        size \in {<<10000, 50>>, <<30000, 80>>, <<60000, 200>>}}

----------------------------------------------------------------------------
(* Initial state: every object as its constructor leaves it *)

InitWith(kind) ==
    /\ now = StartTime
    /\ fail_safe = FailSafeManager_init
    /\ all_errors = <<>>
    /\ risk_manager = RiskManager_init
    /\ health_monitor = HealthMonitor_init
    /\ auto_recovery = AutoRecoveryManager_init
    /\ reliability = [is_running |-> FALSE]
    /\ engine = Engine_init(kind)
    /\ pc = [monitor |-> "idle", trading |-> "idle"]
    /\ wake = [monitor |-> 0, trading |-> 0]
    /\ crit_streak = 0
    /\ all_critical = TRUE
    /\ safety = ComprehensiveSafetySystem_init
    /\ calculator = RealTimeProfitCalculator_init
    /\ multi_executor = MultiThreadedExecutor_init
    /\ waiter = ProfitWait_init
    /\ submitter = BundleSubmit_init
    /\ workers = Workers_init
    /\ manager = ReliabilityManager_init
    /\ ret = [op |-> "init", val |-> <<>>]

\* src/src/main.py constructs the complete engine
Init == InitWith("complete")

\* either engine
InitEngines == \E kind \in EngineKinds : InitWith(kind)

----------------------------------------------------------------------------
(* The clock *)

Tick(d) ==
    /\ now + d <= MaxTime
    /\ now' = now + d
    /\ ret' = [op |-> "tick", val |-> <<>>]
    /\ UNCHANGED <<fail_safe, all_errors, risk_manager, toolVars, safety, supVars>>

----------------------------------------------------------------------------
(* Calls on the FailSafeManager *)

RecordError ==
    /\ Len(all_errors) < MaxErrorCalls
    /\ fail_safe' = record_error(fail_safe, now)
    /\ all_errors' = Append(all_errors, now)
    /\ ret' = [op |-> "record_error", val |-> <<fail_safe.is_emergency_stopped>>]
    /\ UNCHANGED <<now, notFailSafe>>

RecordTrade ==
    \E profit \in Profits :
        /\ fail_safe.active_trades < MaxActive
        /\ fail_safe.daily_loss + Abs(profit) <= MaxLossSeen
        /\ fail_safe' = record_trade(fail_safe, profit)
        /\ ret' = [op |-> "record_trade", val |-> <<profit>>]
        /\ UNCHANGED <<now, all_errors, notFailSafe>>

CompleteTrade ==
    /\ fail_safe' = complete_trade(fail_safe)
    /\ ret' = [op |-> "complete_trade", val |-> <<>>]
    /\ UNCHANGED <<now, all_errors, notFailSafe>>

ResetDailyLoss ==
    /\ fail_safe' = reset_daily_loss(fail_safe)
    /\ ret' = [op |-> "reset_daily_loss", val |-> <<>>]
    /\ UNCHANGED <<now, all_errors, notFailSafe>>

EnableTrading ==
    /\ fail_safe' = enable_trading(fail_safe)
    /\ ret' = [op |-> "enable_trading", val |-> <<>>]
    /\ UNCHANGED <<now, all_errors, notFailSafe>>

DisableTrading ==
    /\ fail_safe' = disable_trading(fail_safe)
    /\ ret' = [op |-> "disable_trading", val |-> <<>>]
    /\ UNCHANGED <<now, all_errors, notFailSafe>>

CheckTradingAllowed ==
    /\ ret' = [op |-> "check_trading_allowed", val |-> check_trading_allowed(fail_safe)]
    /\ UNCHANGED <<now, fail_safe, all_errors, notFailSafe>>

----------------------------------------------------------------------------
(* Calls on the RiskManager *)

ValidateLoanRequest ==
    \E token \in Tokens, amount \in Amounts :
        LET r == validate_loan_request(risk_manager, token, amount, now)
        IN  /\ Len(r.rm.risk_alerts) <= MaxAlerts
            /\ risk_manager' = r.rm
            /\ ret' = [op |-> "validate_loan_request",
                       val |-> <<token, amount, r.val[1], r.val[2]>>]
            /\ UNCHANGED <<now, notRisk>>

UpdatePosition ==
    \E token \in Tokens, amount \in {10000} :
        /\ risk_manager' = update_position(risk_manager, [token |-> token, amount |-> amount])
        /\ ret' = [op |-> "update_position", val |-> <<token>>]
        /\ UNCHANGED <<now, notRisk>>

RecordTradeResult ==
    \E successful \in BOOLEAN, profit \in Profits :
        /\ risk_manager.total_trades < MaxTrades
        /\ risk_manager' = record_trade_result(risk_manager, successful, profit)
        /\ ret' = [op |-> "record_trade_result", val |-> <<successful, profit>>]
        /\ UNCHANGED <<now, notRisk>>

ResetDailyStats ==
    /\ risk_manager' = reset_daily_stats(risk_manager)
    /\ ret' = [op |-> "reset_daily_stats", val |-> <<>>]
    /\ UNCHANGED <<now, notRisk>>

RiskEnableTrading ==
    /\ risk_manager' = rm_enable_trading(risk_manager)
    /\ ret' = [op |-> "rm_enable_trading", val |-> <<>>]
    /\ UNCHANGED <<now, notRisk>>

RiskDisableTrading ==
    /\ risk_manager' = rm_disable_trading(risk_manager)
    /\ ret' = [op |-> "rm_disable_trading", val |-> <<>>]
    /\ UNCHANGED <<now, notRisk>>

----------------------------------------------------------------------------
(* The two loops.  Each action runs one loop from one suspension (an await  *)
(* that yields to the event loop) to the next.                              *)

Asleep(p) == pc[p] \in {"sleep", "done"} /\ (pc[p] = "sleep" => wake[p] > now)

\* time passes while both loops are suspended in a sleep
LoopTick ==
    /\ Asleep("monitor") /\ Asleep("trading")
    /\ now + RecTickStep <= StartTime + RecHorizon
    /\ now' = now + RecTickStep
    /\ ret' = [op |-> "tick", val |-> <<>>]
    /\ UNCHANGED <<fail_safe, all_errors, risk_manager, toolVars, safety, supVars>>

\* engine.start(): starts the reliability manager and both loops
Start ==
    /\ ~engine.is_running
    /\ pc = [monitor |-> "idle", trading |-> "idle"]
    /\ engine' = [engine EXCEPT !.is_running = TRUE]
    /\ reliability' = [reliability EXCEPT !.is_running = TRUE]
    /\ pc' = [monitor |-> "start", trading |-> "start"]
    /\ ret' = [op |-> "start", val |-> <<>>]
    /\ UNCHANGED <<now, fail_safe, all_errors, risk_manager, toolVars, safety, health_monitor,
                   auto_recovery, wake, crit_streak, all_critical>>

\* _monitoring_loop: the while test, then run_health_checks up to its first sleep
MonitorWake ==
    /\ pc.monitor = "start" \/ (pc.monitor = "sleep" /\ wake.monitor <= now)
    /\ pc' = [pc EXCEPT !.monitor = IF reliability.is_running THEN "health" ELSE "done"]
    /\ ret' = [op |-> "monitoring_loop", val |-> <<>>]
    /\ UNCHANGED <<now, fail_safe, all_errors, risk_manager, toolVars, safety, health_monitor,
                   auto_recovery, reliability, engine, wake, crit_streak, all_critical>>

\* _monitoring_loop: run_health_checks returns and check_and_recover is entered;
\* inside the cooldown it returns NONE and the loop sleeps
MonitorHealthDone(R) ==
    \E reading \in R :
        LET hc == run_health_checks(reading)
        IN  /\ pc.monitor = "health"
            /\ health_monitor' = [health_monitor EXCEPT !.health_checks = hc.health_checks]
            /\ all_critical' = (all_critical /\ hc.health = "critical")
            /\ IF in_cooldown(auto_recovery, now)
               THEN /\ pc' = [pc EXCEPT !.monitor = "sleep"]
                    /\ wake' = [wake EXCEPT !.monitor = now + check_interval]
                    /\ ret' = [op |-> "check_and_recover",
                               val |-> <<"none", "not checked", "monitor">>]
               ELSE /\ pc' = [pc EXCEPT !.monitor = "recover"]
                    /\ ret' = [op |-> "monitoring_loop", val |-> <<>>]
                    /\ UNCHANGED wake
            /\ UNCHANGED <<now, fail_safe, all_errors, risk_manager, toolVars, safety, auto_recovery,
                           reliability, engine, crit_streak>>

\* _monitoring_loop: check_and_recover gets its health, acts and returns; the
\* loop logs the action and sleeps
MonitorRecoverDone(R) ==
    \E reading \in R :
        LET hc == run_health_checks(reading)
            fin == finish_check_and_recover(auto_recovery, hc.health, now)
        IN  /\ pc.monitor = "recover"
            /\ Len(fin.ar.recovery_actions) <= MaxLog
            /\ health_monitor' = [health_monitor EXCEPT !.health_checks = hc.health_checks]
            /\ all_critical' = (all_critical /\ hc.health = "critical")
            /\ auto_recovery' = fin.ar
            /\ crit_streak' = IF hc.health = "healthy" THEN 0
                              ELSE IF hc.health = "critical" THEN crit_streak + 1
                              ELSE crit_streak
            /\ pc' = [pc EXCEPT !.monitor = "sleep"]
            /\ wake' = [wake EXCEPT !.monitor = now + check_interval]
            /\ ret' = [op |-> "check_and_recover", val |-> <<fin.action, hc.health, "monitor">>]
            /\ UNCHANGED <<now, fail_safe, all_errors, risk_manager, toolVars, safety, reliability, engine>>

\* _trading_loop: the while test, then _check_system_health up to the first
\* sleep of run_health_checks
TradingWake ==
    /\ pc.trading = "start" \/ (pc.trading = "sleep" /\ wake.trading <= now)
    /\ pc' = [pc EXCEPT !.trading = IF engine.is_running THEN "health" ELSE "done"]
    /\ ret' = [op |-> "trading_loop", val |-> <<>>]
    /\ UNCHANGED <<now, fail_safe, all_errors, risk_manager, toolVars, safety, health_monitor,
                   auto_recovery, reliability, engine, wake, crit_streak, all_critical>>

\* _trading_loop: run_health_checks returns.  CRITICAL health enters
\* check_and_recover.  Otherwise, and when check_and_recover returns NONE inside
\* the cooldown, the safety status is read, the risk gate call
\* self.risk_manager.check_trading_allowed() raises AttributeError (RiskManager
\* has no such method) and the handler sleeps 10 seconds.
TradingHealthDone(R) ==
    \E reading \in R :
        LET hc == run_health_checks(reading)
        IN  /\ pc.trading = "health"
            /\ health_monitor' = [health_monitor EXCEPT !.health_checks = hc.health_checks]
            /\ all_critical' = (all_critical /\ hc.health = "critical")
            /\ IF hc.health = "critical" /\ ~in_cooldown(auto_recovery, now)
               THEN /\ pc' = [pc EXCEPT !.trading = "recover"]
                    /\ ret' = [op |-> "trading_loop", val |-> <<>>]
                    /\ UNCHANGED <<engine, wake>>
               ELSE /\ engine' = read_safety_status(engine, fail_safe)
                    /\ pc' = [pc EXCEPT !.trading = "sleep"]
                    /\ wake' = [wake EXCEPT !.trading = now + 10]
                    /\ ret' = IF hc.health = "critical"
                              THEN [op |-> "check_and_recover",
                                    val |-> <<"none", "not checked", "trading">>]
                              ELSE [op |-> "trading_loop", val |-> <<"AttributeError">>]
            /\ UNCHANGED <<now, fail_safe, all_errors, risk_manager, toolVars, safety, auto_recovery,
                           reliability, crit_streak>>

\* _trading_loop: check_and_recover gets its health, acts and returns.
\* EMERGENCY_STOP clears is_running; any other action goes on to the safety
\* status.  Then the risk gate call raises and the handler sleeps.
TradingRecoverDone(R) ==
    \E reading \in R :
        LET hc == run_health_checks(reading)
            fin == finish_check_and_recover(auto_recovery, hc.health, now)
        IN  /\ pc.trading = "recover"
            /\ Len(fin.ar.recovery_actions) <= MaxLog
            /\ health_monitor' = [health_monitor EXCEPT !.health_checks = hc.health_checks]
            /\ all_critical' = (all_critical /\ hc.health = "critical")
            /\ auto_recovery' = fin.ar
            /\ crit_streak' = IF hc.health = "healthy" THEN 0
                              ELSE IF hc.health = "critical" THEN crit_streak + 1
                              ELSE crit_streak
            /\ engine' = IF fin.action = "emergency_stop"
                         THEN [engine EXCEPT !.is_running = FALSE]
                         ELSE read_safety_status(engine, fail_safe)
            /\ pc' = [pc EXCEPT !.trading = "sleep"]
            /\ wake' = [wake EXCEPT !.trading = now + 10]
            /\ ret' = [op |-> "check_and_recover", val |-> <<fin.action, hc.health, "trading">>]
            /\ UNCHANGED <<now, fail_safe, all_errors, risk_manager, toolVars, safety, reliability>>

\* a record_error or a record_trade on the fail-safe of the running engine
\* reaches its limit and calls _trigger_emergency_stop
TriggerEmergencyStop ==
    /\ ~fail_safe.is_emergency_stopped
    /\ fail_safe' = trigger_emergency_stop(fail_safe)
    /\ ret' = [op |-> "_trigger_emergency_stop", val |-> <<>>]
    /\ UNCHANGED <<now, all_errors, notFailSafe>>

\* _execute_trade of the engine, called on one opportunity
ExecuteTrade ==
    \E outcome \in Estimates :
        LET r == execute_trade(engine.kind, risk_manager, outcome)
        IN  /\ r.rm.total_trades <= MaxTrades
            /\ risk_manager' = r.rm
            /\ ret' = [op |-> "_execute_trade",
                       val |-> <<r.success, r.profit, r.error, r.gates>>]
            /\ UNCHANGED <<now, notRisk>>

\* the opportunities that passed the filter are executed: the best one by the
\* enhanced engine, the best three at most by the complete engine
ExecuteOpportunities ==
    \E n \in 1..(IF engine.kind = "enhanced" THEN 1 ELSE 3) :
        \E outcomes \in [1..n -> Estimates] :
            LET r == execute_multiple_trades(engine, risk_manager, outcomes)
            IN  /\ r.rm.total_trades <= MaxBooked
                /\ engine' = r.eng
                /\ risk_manager' = r.rm
                /\ ret' = [op |-> "_execute_multiple_trades",
                           val |-> <<r.results, risk_manager>>]
                /\ UNCHANGED <<now, fail_safe, all_errors, toolVars, safety,
                               health_monitor, auto_recovery, reliability, pc, wake,
                               crit_streak, all_critical>>

----------------------------------------------------------------------------
(* Calls on the HealthMonitor *)

\* run_health_checks from its last suspension to its return: the checks are
\* stored and the overall health is returned
RunHealthChecks ==
    \E reading \in HealthReadings :
        LET hc == run_health_checks(reading)
        IN  /\ health_monitor' = [health_monitor EXCEPT !.health_checks = hc.health_checks]
            /\ ret' = [op |-> "run_health_checks", val |-> <<hc.health, reading>>]
            /\ UNCHANGED <<now, fail_safe, all_errors, risk_manager, toolVars, safety, auto_recovery,
                           reliability, engine, pc, wake, crit_streak, all_critical>>

GetHealth ==
    /\ ret' = [op |-> "get_health", val |-> <<get_health(health_monitor)>>]
    /\ UNCHANGED <<now, fail_safe, all_errors, risk_manager, toolVars, safety, supVars>>

\* get_health_report, which asks _determine_overall_health
DetermineOverallHealth ==
    /\ ret' = [op |-> "_determine_overall_health",
               val |-> <<determine_overall_health(health_monitor)>>]
    /\ UNCHANGED <<now, fail_safe, all_errors, risk_manager, toolVars, safety, supVars>>

----------------------------------------------------------------------------
(* Calls on the safety system *)

\* one step of the clock that outlasts the chainlink staleness bound
StaleStep == chainlink_staleness + 1

\* time passes between two calls on the safety system
SafetyTick ==
    /\ now < StartTime + MaxSafetyTicks * StaleStep
    /\ now' = now + StaleStep
    /\ ret' = [op |-> "tick", val |-> <<>>]
    /\ UNCHANGED <<fail_safe, all_errors, risk_manager, toolVars, safety, supVars>>

PreExecutionCheck(C, P) ==
    \E context \in C, probe \in P :
        LET r == pre_execution_check(safety, context, probe, now)
        IN  /\ safety.total_checks < MaxChecks
            /\ "rpc_url" \notin DOMAIN context => probe = ProbeTimeout
            /\ safety' = r.st
            /\ ret' = [op |-> "pre_execution_check", val |-> <<r.res, r.ran, context>>]
            /\ UNCHANGED <<now, fail_safe, all_errors, risk_manager, toolVars, supVars>>

PreExecutionCheckCall ==
    \E context \in AnyContexts, probe \in GateProbes :
        LET r == pre_execution_check_call(safety, context, probe, now)
        IN  /\ safety.total_checks < MaxChecks
            /\ "rpc_url" \notin DOMAIN context => probe = ProbeTimeout
            /\ safety' = r.st
            /\ ret' = [op |-> "pre_execution_check",
                       val |-> <<r.res, r.raised, context>>]
            /\ UNCHANGED <<now, fail_safe, all_errors, risk_manager, toolVars, supVars>>

SubmitBundle ==
    \E bundle_hash \in BundleHashes :
        /\ safety' = [safety EXCEPT !.builder =
                          submit_bundle_with_protection(@, bundle_hash, now)]
        /\ ret' = [op |-> "submit_bundle_with_protection", val |-> <<bundle_hash>>]
        /\ UNCHANGED <<now, fail_safe, all_errors, risk_manager, toolVars, supVars>>

VerifySimulationAccuracy(S) ==
    \E sim \in S :
        LET r == verify_simulation_accuracy(safety.simulation, sim[1], sim[2], now)
        IN  /\ Len(safety.simulation.simulation_results) < MaxSims
            /\ safety' = [safety EXCEPT !.simulation = r.st]
            /\ ret' = [op |-> "verify_simulation_accuracy", val |-> <<r.res, sim>>]
            /\ UNCHANGED <<now, fail_safe, all_errors, risk_manager, toolVars, supVars>>

VerifyBlockState ==
    \E current_block \in Blocks :
        LET r == verify_block_state(safety.consensus, current_block, now)
        IN  /\ Len(r.st.block_history) <= MaxBlocks
            /\ safety' = [safety EXCEPT !.consensus = r.st]
            /\ ret' = [op |-> "verify_block_state", val |-> <<r.res, current_block>>]
            /\ UNCHANGED <<now, fail_safe, all_errors, risk_manager, toolVars, supVars>>

\* the last verify_block_state call was on a block of the fork being followed
OnFork == ret.op = "verify_block_state" /\ Len(ret.val) = 3

\* verify_block_state on any block, before a fork is followed
ChainBlockArrives == ~OnFork /\ VerifyBlockState

\* after a reorg REJECT the chain goes on from the rejected block: the next
\* block of that fork arrives and verify_block_state is called on it
ForkBlockArrives ==
    /\ ret.op = "verify_block_state"
    /\ OnFork \/ ret.val[1].level = "reject"
    /\ ret.val[2].block_number < MaxForkHeight
    /\ LET current_block == ForkBlock(ret.val[2])
           r == verify_block_state(safety.consensus, current_block, now)
       IN  /\ safety' = [safety EXCEPT !.consensus = r.st]
           /\ ret' = [op |-> "verify_block_state",
                      val |-> <<r.res, current_block, "fork">>]
    /\ UNCHANGED <<now, fail_safe, all_errors, risk_manager, toolVars, supVars>>

VerifyPriceFresh ==
    \E token \in {"ETH", "USDC"}, price_data \in Prices(now) :
        LET r == verify_price_fresh(safety.oracle, token, price_data, now)
        IN  /\ safety' = [safety EXCEPT !.oracle = r.st]
            /\ ret' = [op |-> "verify_price_fresh", val |-> <<r.res, price_data, token>>]
            /\ UNCHANGED <<now, fail_safe, all_errors, risk_manager, toolVars, supVars>>

VerifyTransactionSafe ==
    \E tx \in Transactions :
        LET r == verify_transaction_safe(safety.transaction, tx.from_address,
                                         tx.to_address, tx.data, tx.nonce, now)
        IN  /\ safety' = [safety EXCEPT !.transaction = r.st]
            /\ ret' = [op |-> "verify_transaction_safe", val |-> <<r.res, tx>>]
            /\ UNCHANGED <<now, fail_safe, all_errors, risk_manager, toolVars, supVars>>

CheckRpcHealth ==
    \E probe \in NetworkProbes :
        LET r == check_rpc_health(safety.network, probe, now)
        IN  /\ Len(safety.network.request_timestamps) < MaxProbes
            /\ safety' = [safety EXCEPT !.network = r.st]
            /\ ret' = [op |-> "check_rpc_health", val |-> <<r.res, probe>>]
            /\ UNCHANGED <<now, fail_safe, all_errors, risk_manager, toolVars, supVars>>

----------------------------------------------------------------------------
(* Calls on the profit verification *)

\* ProfitGuard.verify_profit_before_trade on an opportunity whose estimate
\* comes out as any of the estimates
VerifyProfitBeforeTrade ==
    \E estimate \in GuardEstimates :
        /\ ret' = [op |-> "verify_profit_before_trade",
                   val |-> <<verify_profit_before_trade(estimate), estimate>>]
        /\ UNCHANGED <<now, fail_safe, all_errors, risk_manager, toolVars, safety, supVars>>

VerifyProfit ==
    \E trade \in Trades, simulation \in SimulationOutcomes, gas_used \in GasUsed :
        /\ ret' = [op |-> "verify_profit",
                   val |-> <<verify_profit(trade, simulation), trade, simulation,
                             calculate_confidence(trade, simulation, gas_used)>>]
        /\ UNCHANGED <<now, fail_safe, all_errors, risk_manager, toolVars, safety, supVars>>

----------------------------------------------------------------------------
(* Calls on the profit calculator *)

\* the clock moves on to the next bucket of the price cache
CalculatorTick ==
    /\ now < StartTime + MaxPriceTicks * cache_ttl
    /\ now' = now + cache_ttl
    /\ ret' = [op |-> "tick", val |-> <<>>]
    /\ UNCHANGED <<fail_safe, all_errors, risk_manager, safety, supVars, toolVars>>

CalculateEstimatedProfit ==
    \E trade \in CalculatorTrades, env \in Envs :
        LET r == calculate_estimated_profit(calculator, trade.token_in, trade.token_out,
                                            trade.amount_in, trade.slippage_tolerance,
                                            env, now)
        IN  /\ calculator' = r.st
            /\ ret' = [op |-> "calculate_estimated_profit",
                       val |-> <<r.res, trade, env,
                                 calculate_estimated_profit(
                                     calculator, trade.token_in, trade.token_out,
                                     trade.amount_in, trade.slippage_tolerance,
                                     Answering(env), now).res.confidence>>]
            /\ UNCHANGED <<now, fail_safe, all_errors, risk_manager, safety, supVars,
                           multi_executor, waiter, submitter, workers, manager>>

----------------------------------------------------------------------------
(* Calls on the ReliabilityManager and steps of its monitoring tasks *)

ManagerStart ==
    /\ Len(manager.tasks) < MaxStarts
    /\ manager' = manager_start(manager)
    /\ ret' = [op |-> "start", val |-> <<>>]
    /\ UNCHANGED <<now, fail_safe, all_errors, risk_manager, safety, supVars,
                   calculator, multi_executor, waiter, submitter, workers>>

ManagerStop ==
    /\ manager' = manager_stop(manager)
    /\ ret' = [op |-> "stop", val |-> <<>>]
    /\ UNCHANGED <<now, fail_safe, all_errors, risk_manager, safety, supVars,
                   calculator, multi_executor, waiter, submitter, workers>>

\* a task runs for the first time or its sleep is over: the while test
MonitorTaskWake ==
    \E i \in DOMAIN manager.tasks :
        /\ manager.tasks[i] \in {"created", "sleep"}
        /\ manager' = [manager EXCEPT !.tasks[i] = monitoring_while(manager)]
        /\ ret' = [op |-> "monitoring_loop", val |-> <<i>>]
        /\ UNCHANGED <<now, fail_safe, all_errors, risk_manager, safety, supVars,
                       calculator, multi_executor, waiter, submitter, workers>>

\* run_health_checks of the loop returns and check_and_recover is entered:
\* inside the cooldown it returns NONE and the loop sleeps
MonitorTaskHealthDone ==
    \E i \in DOMAIN manager.tasks, reading \in Readings :
        LET hc == run_health_checks(reading)
        IN  /\ manager.tasks[i] = "health"
            /\ health_monitor' = [health_monitor EXCEPT !.health_checks = hc.health_checks]
            /\ manager' = [manager EXCEPT !.tasks[i] =
                              IF in_cooldown(auto_recovery, now) THEN "sleep"
                              ELSE "recover"]
            /\ ret' = [op |-> "run_health_checks", val |-> <<hc.health, reading, i>>]
            /\ UNCHANGED <<now, fail_safe, all_errors, risk_manager, safety,
                           auto_recovery, reliability, engine, pc, wake, crit_streak,
                           all_critical, calculator, multi_executor, waiter,
                           submitter, workers>>

\* check_and_recover gets its health, acts and returns; the loop sleeps
MonitorTaskRecoverDone ==
    \E i \in DOMAIN manager.tasks, reading \in Readings :
        LET hc == run_health_checks(reading)
            fin == finish_check_and_recover(auto_recovery, hc.health, now)
        IN  /\ manager.tasks[i] = "recover"
            /\ Len(fin.ar.recovery_actions) <= MaxLog
            /\ health_monitor' = [health_monitor EXCEPT !.health_checks = hc.health_checks]
            /\ auto_recovery' = fin.ar
            /\ manager' = [manager EXCEPT !.tasks[i] = "sleep"]
            /\ ret' = [op |-> "check_and_recover", val |-> <<fin.action, hc.health, i>>]
            /\ UNCHANGED <<now, fail_safe, all_errors, risk_manager, safety,
                           reliability, engine, pc, wake, crit_streak, all_critical,
                           calculator, multi_executor, waiter, submitter, workers>>

----------------------------------------------------------------------------
(* Steps of the workers of the fail-safe *)

WorkerCheckTradingAllowed ==
    \E w \in DOMAIN workers :
        /\ workers[w] = "idle"
        /\ workers' = [workers EXCEPT ![w] = worker_checked(fail_safe)]
        /\ ret' = [op |-> "check_trading_allowed",
                   val |-> check_trading_allowed(fail_safe)]
        /\ UNCHANGED <<now, fail_safe, all_errors, risk_manager, safety, supVars,
                       calculator, multi_executor, waiter, submitter, manager>>

WorkerRecordTrade ==
    \E w \in DOMAIN workers, profit \in WorkerProfits :
        /\ workers[w] = "allowed"
        /\ fail_safe' = record_trade(fail_safe, profit)
        /\ workers' = [workers EXCEPT ![w] = "trading"]
        /\ ret' = [op |-> "record_trade", val |-> <<profit>>]
        /\ UNCHANGED <<now, all_errors, risk_manager, safety, supVars,
                       calculator, multi_executor, waiter, submitter, manager>>

WorkerCompleteTrade ==
    \E w \in DOMAIN workers :
        /\ workers[w] = "trading"
        /\ fail_safe' = complete_trade(fail_safe)
        /\ workers' = [workers EXCEPT ![w] = "done"]
        /\ ret' = [op |-> "complete_trade", val |-> <<>>]
        /\ UNCHANGED <<now, all_errors, risk_manager, safety, supVars,
                       calculator, multi_executor, waiter, submitter, manager>>

----------------------------------------------------------------------------
(* Steps of the bundle submission with retry *)

SubmitBundleWithProtection ==
    \E bundle_hash \in BundleHashes, retries \in MaxRetriesGiven :
        /\ submitter.pc \in {"idle", "done"}
        /\ submitter.calls < MaxSubmits
        /\ submitter' = retry_call(submitter, "builder", bundle_hash, retries)
        /\ ret' = [op |-> "submit_bundle_with_protection_call",
                   val |-> <<bundle_hash, retries>>]
        /\ UNCHANGED <<now, fail_safe, all_errors, risk_manager, safety, supVars,
                       calculator, multi_executor, waiter, workers, manager>>

SendWithRetry ==
    \E retries \in MaxRetriesGiven :
        /\ submitter.pc \in {"idle", "done"}
        /\ submitter.calls < MaxSubmits
        /\ submitter' = retry_call(submitter, "retry", submitter.bundle_hash,
                                   retries)
        /\ ret' = [op |-> "send_with_retry_call", val |-> <<retries>>]
        /\ UNCHANGED <<now, fail_safe, all_errors, risk_manager, safety, supVars,
                       calculator, multi_executor, waiter, workers, manager>>

\* await self._submit_to_relay(relay_url, ...) is over
SubmitToRelay ==
    \E answer \in RelayAnswers :
        /\ submitter.pc = "attempt"
        /\ submitter.who = "builder"
        /\ submitter' = submit_to_relay_answer(submitter, answer)
        /\ safety' = IF answer = "accepts"
                     THEN [safety EXCEPT !.builder =
                              submit_bundle_with_protection(@, submitter.bundle_hash,
                                                            now)]
                     ELSE safety
        /\ ret' = [op |-> "_submit_to_relay",
                   val |-> <<answer, submitter.attempt, submitter.relay>>]
        /\ UNCHANGED <<now, fail_safe, all_errors, risk_manager, supVars,
                       calculator, multi_executor, waiter, workers, manager>>

\* await flashbots.send_bundle(signed_txs, block_number) is over
FlashbotsSendBundle ==
    \E answer \in {"accepts", "rejects"} :
        /\ submitter.pc = "attempt"
        /\ submitter.who = "retry"
        /\ submitter' = send_bundle_answer(submitter, answer)
        /\ ret' = [op |-> "send_bundle", val |-> <<answer, submitter.attempt>>]
        /\ UNCHANGED <<now, fail_safe, all_errors, risk_manager, safety, supVars,
                       calculator, multi_executor, waiter, workers, manager>>

\* await asyncio.sleep(delay) is over
RetrySleep ==
    /\ submitter.pc = "sleep"
    /\ now' = now + submitter.delay
    /\ submitter' = next_attempt(submitter)
    /\ ret' = [op |-> "sleep", val |-> <<submitter.delay>>]
    /\ UNCHANGED <<fail_safe, all_errors, risk_manager, safety, supVars,
                   calculator, multi_executor, waiter, workers, manager>>

----------------------------------------------------------------------------
(* Steps of ProfitGuard.wait_for_profit_increase *)

\* a caller starts the wait; the guard serves one such call at a time here
WaitForProfitIncrease ==
    \E trade \in WaitTrades, max_wait_time \in MaxWaitTimes :
        /\ waiter.pc \in {"idle", "returned", "raised"}
        /\ waiter.calls < MaxWaits
        /\ waiter' = wait_for_profit_increase_call(waiter, trade.token_in,
                                                   trade.token_out, trade.amount,
                                                   max_wait_time, now)
        /\ ret' = [op |-> "wait_for_profit_increase_call",
                   val |-> <<trade, max_wait_time>>]
        /\ UNCHANGED <<now, fail_safe, all_errors, risk_manager, safety, supVars,
                       calculator, multi_executor, submitter, workers, manager>>

\* the while test, then a poll or the end of the call
WaitWhile ==
    \E env \in WaitEnvs :
        LET r == wait_for_profit_increase_while(waiter, calculator, env, now)
        IN  /\ waiter.pc = "while"
            /\ waiter' = r.w
            /\ calculator' = r.calc
            /\ ret' = [op |-> IF r.w.pc = "sleep" THEN "poll"
                              ELSE "wait_for_profit_increase",
                       val |-> <<r.w.pc, r.w.ok, r.w.estimate>>]
            /\ UNCHANGED <<now, fail_safe, all_errors, risk_manager, safety, supVars,
                           multi_executor, submitter, workers, manager>>

\* await asyncio.sleep(10) is over
WaitSleep ==
    /\ waiter.pc = "sleep"
    /\ now' = now + poll_interval
    /\ waiter' = [waiter EXCEPT !.pc = "while"]
    /\ ret' = [op |-> "sleep", val |-> <<poll_interval>>]
    /\ UNCHANGED <<fail_safe, all_errors, risk_manager, safety, supVars,
                   calculator, multi_executor, submitter, workers, manager>>

----------------------------------------------------------------------------
(* Steps of MultiThreadedExecutor.execute_concurrent *)

\* execute_concurrent(tasks) with n tasks: gather wraps each limited_execute
\* in a task of the event loop; a new call waits for the previous one
ExecuteConcurrent ==
    \E n \in 1..MaxTasks :
        /\ \A t \in DOMAIN multi_executor.tasks : multi_executor.tasks[t] \in Finished
        /\ multi_executor' = [multi_executor EXCEPT !.tasks = [t \in 1..n |-> "pending"]]
        /\ ret' = [op |-> "execute_concurrent", val |-> <<n>>]
        /\ UNCHANGED <<now, fail_safe, all_errors, risk_manager, safety, supVars,
                       calculator, waiter, submitter, workers, manager>>

\* a task gets the event loop for the first time, or again after a release
LimitedExecuteEnter ==
    \E t \in DOMAIN multi_executor.tasks :
        /\ multi_executor.tasks[t] \in {"pending", "waiting"}
        /\ multi_executor' = limited_execute_enter(multi_executor, t)
        /\ multi_executor' # multi_executor
        /\ ret' = [op |-> "limited_execute", val |-> <<t, multi_executor'.tasks[t]>>]
        /\ UNCHANGED <<now, fail_safe, all_errors, risk_manager, safety, supVars,
                       calculator, waiter, submitter, workers, manager>>

\* the task() of a running limited_execute returns, raises or is cancelled
LimitedExecuteExit ==
    \E t \in DOMAIN multi_executor.tasks, outcome \in Finished :
        /\ multi_executor.tasks[t] = "running"
        /\ multi_executor' = limited_execute_exit(multi_executor, t, outcome)
        /\ ret' = [op |-> "limited_execute", val |-> <<t, outcome>>]
        /\ UNCHANGED <<now, fail_safe, all_errors, risk_manager, safety, supVars,
                       calculator, waiter, submitter, workers, manager>>

\* a limited_execute that has not entered the semaphore is cancelled
CancelBeforeEnter ==
    \E t \in DOMAIN multi_executor.tasks :
        /\ multi_executor.tasks[t] \in {"pending", "waiting"}
        /\ multi_executor' = [multi_executor EXCEPT !.tasks[t] = "cancelled"]
        /\ ret' = [op |-> "cancel", val |-> <<t>>]
        /\ UNCHANGED <<now, fail_safe, all_errors, risk_manager, safety, supVars,
                       calculator, waiter, submitter, workers, manager>>

----------------------------------------------------------------------------
(* Specifications *)

\* every operation of the fail-safe, called in any order, a full window apart or not
FailSafeNext ==
    \/ Tick(error_window)
    \/ RecordError
    \/ RecordTrade
    \/ CompleteTrade
    \/ ResetDailyLoss
    \/ EnableTrading
    \/ DisableTrading
    \/ CheckTradingAllowed

SpecFailSafe == Init /\ [][FailSafeNext]_vars

\* the error budget over time
ErrorsNext ==
    \/ Tick(ErrTickStep)
    \/ RecordError
    \/ EnableTrading
    \/ CheckTradingAllowed

SpecErrors == Init /\ [][ErrorsNext]_vars

\* every operation of the risk manager, called in any order
RiskNext ==
    \/ ValidateLoanRequest
    \/ UpdatePosition
    \/ RecordTradeResult
    \/ ResetDailyStats
    \/ RiskEnableTrading
    \/ RiskDisableTrading

SpecRisk == Init /\ [][RiskNext]_vars

\* the monitoring loop and the trading loop of a started engine
RecoveryNext ==
    \/ Start
    \/ LoopTick
    \/ MonitorWake
    \/ MonitorHealthDone(Readings)
    \/ MonitorRecoverDone(Readings)
    \/ TradingWake
    \/ TradingHealthDone(Readings)
    \/ TradingRecoverDone(Readings)

SpecRecovery == Init /\ [][RecoveryNext]_vars

\* the health monitor: checks run on any readings, and the two ways of reading
\* the health off the stored checks
HealthNext ==
    \/ RunHealthChecks
    \/ GetHealth
    \/ DetermineOverallHealth

SpecHealth == Init /\ [][HealthNext]_vars

\* pre_execution_check called with any of the contexts, time passing between
\* the calls
SafetyNext ==
    \/ SafetyTick
    \/ PreExecutionCheck(Contexts, GateProbes)

SpecSafety == Init /\ [][SafetyNext]_vars

\* the gate of one trade: its bundle is submitted, its simulations are
\* recorded, and pre_execution_check is asked
GateNext ==
    \/ SafetyTick
    \/ SubmitBundle
    \/ VerifySimulationAccuracy(FailedSimulations)
    \/ PreExecutionCheck(GateContexts, {ProbeTimeout})

SpecGate == Init /\ [][GateNext]_vars

\* blocks given to the consensus protection one after the other
ConsensusNext ==
    \/ SafetyTick
    \/ VerifyBlockState

SpecConsensus == Init /\ [][ConsensusNext]_vars

\* blocks of any kind, and after a reorg REJECT the blocks of the new fork,
\* which keep arriving
ForkNext ==
    \/ ChainBlockArrives
    \/ ForkBlockArrives

SpecFork == Init /\ [][ForkNext]_vars /\ WF_vars(ForkBlockArrives)

\* prices given to the oracle protection, time passing between the calls
OracleNext ==
    \/ SafetyTick
    \/ VerifyPriceFresh

SpecOracle == Init /\ [][OracleNext]_vars

\* transactions given to the transaction protection in any order
TransactionNext ==
    \/ VerifyTransactionSafe

SpecTransaction == Init /\ [][TransactionNext]_vars

\* simulation results given to the simulation protection one after the other
SimulationNext ==
    \/ VerifySimulationAccuracy(Simulations)

SpecSimulation == Init /\ [][SimulationNext]_vars

\* the endpoint probed again and again, time passing between the probes
NetworkNext ==
    \/ SafetyTick
    \/ CheckRpcHealth

SpecNetwork == Init /\ [][NetworkNext]_vars

\* one executor, its calls one after the other
ExecutorNext ==
    \/ ExecuteConcurrent
    \/ LimitedExecuteEnter
    \/ LimitedExecuteExit
    \/ CancelBeforeEnter

SpecExecutor == Init /\ [][ExecutorNext]_vars

\* the profit calculator over the buckets of its price cache
CalculatorNext ==
    \/ CalculatorTick
    \/ CalculateEstimatedProfit

SpecCalculator == Init /\ [][CalculatorNext]_vars

\* calls of the profit guard's wait
WaitNext ==
    \/ WaitForProfitIncrease
    \/ WaitWhile
    \/ WaitSleep

SpecWait == Init /\ [][WaitNext]_vars

\* bundle submissions with retry; every await of a running submission ends:
\* a relay answers or its request fails, and a sleep is over after its delay
RetryNext ==
    \/ SubmitBundleWithProtection
    \/ SendWithRetry
    \/ SubmitToRelay
    \/ FlashbotsSendBundle
    \/ RetrySleep

SpecRetryFair ==
    /\ Init
    /\ [][RetryNext]_vars
    /\ WF_vars(SubmitToRelay)
    /\ WF_vars(FlashbotsSendBundle)
    /\ WF_vars(RetrySleep)

\* the two profit verifications, called on any opportunity
ProfitNext ==
    \/ VerifyProfitBeforeTrade
    \/ VerifyProfit

SpecProfit == Init /\ [][ProfitNext]_vars

\* the gates on any opportunity: the safety check on any context, and
\* _execute_trade with its profit verification
GateCallNext ==
    \/ SafetyTick
    \/ PreExecutionCheckCall
    \/ ExecuteTrade

SpecGateCall == Init /\ [][GateCallNext]_vars

\* the loops of a started engine whose fail-safe may be stopped at any time
StopNext ==
    \/ RecoveryNext
    \/ TriggerEmergencyStop

SpecStop == Init /\ [][StopNext]_vars

\* the engines executing the opportunities they were given
PipelineNext ==
    \/ ExecuteOpportunities
    \/ ExecuteTrade

SpecPipeline == InitEngines /\ [][PipelineNext]_vars

\* the bookkeeping of the trading loop, the recording call it makes with any
\* result, and the fail-safe asked in between
LossNext ==
    \/ ExecuteOpportunities
    \/ RecordTradeResult
    \/ CheckTradingAllowed

SpecLoss == InitEngines /\ [][LossNext]_vars

\* start and stop of the reliability manager in any order, and its tasks
ManagerNext ==
    \/ ManagerStart
    \/ ManagerStop
    \/ MonitorTaskWake
    \/ MonitorTaskHealthDone
    \/ MonitorTaskRecoverDone

SpecManager == Init /\ [][ManagerNext]_vars

\* the workers of the fail-safe, their calls interleaved in any order
WorkersNext ==
    \/ WorkerCheckTradingAllowed
    \/ WorkerRecordTrade
    \/ WorkerCompleteTrade

SpecWorkers == Init /\ [][WorkersNext]_vars

\* the engines: the loops, and _execute_trade on its own
EngineNext ==
    \/ Start
    \/ LoopTick
    \/ MonitorWake
    \/ MonitorHealthDone(EngineReadings)
    \/ MonitorRecoverDone(EngineReadings)
    \/ TradingWake
    \/ TradingHealthDone(EngineReadings)
    \/ TradingRecoverDone(EngineReadings)
    \/ ExecuteTrade

SpecEngine == InitEngines /\ [][EngineNext]_vars

\* the event loop always runs a task that is ready, and time goes on
SpecRecoveryFair == SpecRecovery /\ WF_vars(RecoveryNext)

----------------------------------------------------------------------------
(* Properties of the FailSafeManager *)

IsStopped(fs) == fs.is_emergency_stopped

\* C2: once is_emergency_stopped is true, every call other than enable_trading
\* leaves it true and check_trading_allowed answers not-allowed; enable_trading
\* clears it.
C2_StopIsSticky ==
    [][ /\ (IsStopped(fail_safe) /\ ret'.op # "enable_trading")
            => (IsStopped(fail_safe') /\ ~check_trading_allowed(fail_safe')[1])
        /\ (ret'.op = "enable_trading") => ~IsStopped(fail_safe') ]_vars

C2_Witness ==
    /\ IsStopped(fail_safe)
    /\ ret.op = "reset_daily_loss"
    /\ fail_safe.daily_loss = 0
    /\ fail_safe.active_trades = 0

\* the errors of the full log that are less than error_window old at time t
WindowCount(errs, t) ==
    Cardinality({i \in DOMAIN errs : t - errs[i] < error_window})

\* C3: a record_error call sets is_emergency_stopped when the errors recorded
\* less than error_window ago, the new one included, number max_errors or
\* more, and leaves the flag as it was when they number fewer.
C3_ErrorBudget ==
    [][ (ret'.op = "record_error") =>
          /\ (WindowCount(all_errors', now') >= max_errors) => IsStopped(fail_safe')
          /\ (WindowCount(all_errors', now') < max_errors)
                => (IsStopped(fail_safe') = IsStopped(fail_safe)) ]_vars

C3_Witness ==
    /\ ret.op = "record_error"
    /\ IsStopped(fail_safe)
    /\ Len(all_errors) = max_errors
    /\ all_errors[1] # all_errors[Len(all_errors)]

\* C39: enable_trading leaves error_history and error_count as they were, and a
\* record_error call that finds the manager not stopped stops it exactly when
\* the errors recorded less than error_window ago, the new one and those from
\* before the re-enable included, number max_errors or more.
C39_ReenableKeepsHistory ==
    [][ /\ (ret'.op = "enable_trading") =>
              /\ fail_safe'.error_history = fail_safe.error_history
              /\ fail_safe'.error_count = fail_safe.error_count
        /\ (ret'.op = "record_error" /\ ~IsStopped(fail_safe)) =>
              (IsStopped(fail_safe') <=> WindowCount(all_errors', now') >= max_errors)
      ]_vars

\* an error recorded after a re-enable stops the manager again: the stop of the
\* tenth error was cleared, and the eleventh counts the ten before it
C39_Witness ==
    /\ ret.op = "record_error"
    /\ ret.val = <<FALSE>>
    /\ IsStopped(fail_safe)
    /\ Len(all_errors) = max_errors + 1
    /\ WindowCount(SubSeq(all_errors, 1, max_errors), all_errors[max_errors]) = max_errors
    /\ WindowCount(all_errors, now) = max_errors + 1

\* C4: a record_trade call adds the loss to daily_loss; when the total is at or
\* over max_daily_loss afterwards, trading is off (trading_enabled false,
\* check_trading_allowed false); when it is under, the call changes neither
\* trading_enabled nor the emergency stop and the loss limit is not the reason
\* check_trading_allowed gives.
C4_LossCap ==
    [][ (ret'.op = "record_trade") =>
          /\ fail_safe'.daily_loss = fail_safe.daily_loss
                + (IF ret'.val[1] < 0 THEN 0 - ret'.val[1] ELSE 0)
          /\ (fail_safe'.daily_loss >= fs_max_daily_loss)
                => /\ ~fail_safe'.trading_enabled
                   /\ ~check_trading_allowed(fail_safe')[1]
          /\ (fail_safe'.daily_loss < fs_max_daily_loss)
                => /\ fail_safe'.trading_enabled = fail_safe.trading_enabled
                   /\ IsStopped(fail_safe') = IsStopped(fail_safe)
                   /\ check_trading_allowed(fail_safe')[2] # "Daily loss limit reached" ]_vars

C4_Witness ==
    /\ ret.op = "record_trade"
    /\ fail_safe.daily_loss = fs_max_daily_loss
    /\ ~fail_safe.trading_enabled
    /\ fail_safe.active_trades = 2

\* C7: check_trading_allowed changes nothing and answers allowed exactly when
\* the system is not emergency-stopped, trading_enabled is true, active_trades
\* is under max_concurrent_trades and daily_loss is under max_daily_loss.
C7_CheckIsPure ==
    [][ (ret'.op = "check_trading_allowed") =>
          /\ fail_safe' = fail_safe
          /\ ret'.val[1] <=> /\ ~fail_safe.is_emergency_stopped
                             /\ fail_safe.trading_enabled
                             /\ fail_safe.active_trades < fs_max_concurrent_trades
                             /\ fail_safe.daily_loss < fs_max_daily_loss ]_vars

C7_Witness ==
    /\ ret.op = "check_trading_allowed"
    /\ ~ret.val[1]
    /\ ~fail_safe.is_emergency_stopped
    /\ fail_safe.trading_enabled
    /\ fail_safe.active_trades < fs_max_concurrent_trades
    /\ fail_safe.daily_loss >= fs_max_daily_loss

----------------------------------------------------------------------------
(* Properties of the RiskManager *)

\* the conditions under which the risk gate has to refuse an amount
MustReject(rm, amount) ==
    \/ ~rm.is_trading_allowed
    \/ amount > max_loan_amount
    \/ Len(rm.active_positions) >= rm_max_concurrent_trades
    \/ rm.daily_loss >= rm_max_daily_loss

\* C5: validate_loan_request refuses whenever trading is disabled, the amount
\* is over max_loan_amount, the active positions number max_concurrent_trades
\* or more, or daily_loss is at or over max_daily_loss; and a loss recorded by
\* record_trade_result that brings daily_loss to the cap switches trading off.
C5_RiskGateRejects ==
    /\ \A token \in Tokens, amount \in Amounts :
          MustReject(risk_manager, amount)
              => ~validate_loan_request(risk_manager, token, amount, now).val[1]
    /\ (ret.op = "record_trade_result" /\ ~ret.val[1]
            /\ risk_manager.daily_loss >= rm_max_daily_loss)
          => ~risk_manager.is_trading_allowed

\* C6: a validate_loan_request call leaves is_trading_allowed, daily_loss and
\* the active positions as they were, and the same call made again right
\* after it returns the same (approved, reason) pair.
C6_ValidateIdempotent ==
    [][ (ret'.op = "validate_loan_request") =>
          /\ risk_manager'.is_trading_allowed = risk_manager.is_trading_allowed
          /\ risk_manager'.daily_loss = risk_manager.daily_loss
          /\ risk_manager'.active_positions = risk_manager.active_positions
          /\ validate_loan_request(risk_manager', ret'.val[1], ret'.val[2], now').val
                = <<ret'.val[3], ret'.val[4]>> ]_vars

----------------------------------------------------------------------------
(* Properties of the AutoRecoveryManager *)

RecoveryLog == auto_recovery.recovery_actions

EmergencyStopIssued ==
    \E i \in DOMAIN RecoveryLog : RecoveryLog[i].action = "emergency_stop"

\* C8: once check_and_recover has issued EMERGENCY_STOP, the fail-safe flag
\* is_emergency_stopped is set and check_trading_allowed answers not-allowed.
C8_EmergencyStopSetsFailSafe ==
    EmergencyStopIssued
        => (fail_safe.is_emergency_stopped /\ ~check_trading_allowed(fail_safe)[1])

\* a check_and_recover call that observed CRITICAL returned RESTART_SERVICE if
\* it was one of the first max_retries such calls since the last HEALTHY
\* observation, and EMERGENCY_STOP if it came after them
RestartsThenStop ==
    (ret.op = "check_and_recover" /\ ret.val[2] = "critical")
        => ret.val[1] = IF crit_streak <= max_retries THEN "restart_service"
                        ELSE "emergency_stop"

\* C9: over the check_and_recover calls that observe CRITICAL with no HEALTHY
\* observation in between, the first max_retries return RESTART_SERVICE and
\* every later one EMERGENCY_STOP; and when every health check comes out
\* CRITICAL and time goes on, EMERGENCY_STOP is eventually issued.
C9_RestartsThenEmergencyStop ==
    /\ []RestartsThenStop
    /\ <>(~all_critical \/ EmergencyStopIssued)

C9_Witness ==
    /\ ret.op = "check_and_recover"
    /\ ret.val[1] = "emergency_stop"
    /\ crit_streak = max_retries + 2
    /\ all_critical

\* the recovery actions other than NONE are recovery_cooldown or more apart
ActionsSeparated ==
    \A i, j \in DOMAIN RecoveryLog :
        (i < j /\ RecoveryLog[i].action # "none" /\ RecoveryLog[j].action # "none")
            => RecoveryLog[j].timestamp - RecoveryLog[i].timestamp >= recovery_cooldown

\* C10: any two recovery actions other than NONE that check_and_recover returns
\* are recovery_cooldown or more apart, and a call made inside the cooldown
\* returns NONE and changes neither retry_count nor the recovery log.
C10_CooldownSeparatesActions ==
    /\ []ActionsSeparated
    /\ [][ (ret'.op = "check_and_recover" /\ ret'.val[2] = "not checked")
              => (ret'.val[1] = "none" /\ auto_recovery' = auto_recovery) ]_vars

RetryCountInRange ==
    /\ 0 <= auto_recovery.retry_count
    /\ auto_recovery.retry_count <= max_retries

\* C37: retry_count stays between 0 and max_retries in every reachable state;
\* it is set back to 0 exactly by the check_and_recover calls that passed the
\* cooldown test and observed HEALTHY: a call that observes DEGRADED and a call
\* made inside the cooldown leave it as it was, and a call that observes
\* CRITICAL leaves it or adds one.
C37_RetryCountResetOnHealthy ==
    /\ []RetryCountInRange
    /\ [][ LET before == auto_recovery.retry_count
               after == auto_recovery'.retry_count
               observed(h) == ret'.op = "check_and_recover" /\ ret'.val[2] = h
           IN  IF observed("healthy") THEN after = 0
               ELSE IF observed("critical") THEN after \in {before, before + 1}
               ELSE after = before ]_vars

\* a HEALTHY observation after a restart has put retry_count back to 0
C37_Witness ==
    /\ ret.op = "check_and_recover"
    /\ ret.val[2] = "healthy"
    /\ auto_recovery.retry_count = 0
    /\ \E i \in DOMAIN RecoveryLog : RecoveryLog[i].action = "restart_service"

\* C11: a check_and_recover call that observes DEGRADED health returns
\* SCALE_RESOURCES and leaves the fail-safe (is_emergency_stopped,
\* trading_enabled) and the running flags of the trading loop and of the
\* monitoring loop as they were.
C11_DegradedOnlyScales ==
    [][ (ret'.op = "check_and_recover" /\ ret'.val[2] = "degraded")
          => /\ ret'.val[1] = "scale_resources"
             /\ fail_safe' = fail_safe
             /\ engine'.is_running = engine.is_running
             /\ reliability' = reliability ]_vars

C11_Witness ==
    /\ ret.op = "check_and_recover"
    /\ ret.val = <<"scale_resources", "degraded", "trading">>
    /\ engine.is_running
    /\ fail_safe.trading_enabled

----------------------------------------------------------------------------
(* Properties of the HealthMonitor *)

Statuses == {"healthy", "degraded", "critical"}

\* how many checks carry each status: the multiset of the statuses
StatusCounts(checks) ==
    [s \in Statuses |-> Cardinality({i \in DOMAIN checks : checks[i].status = s})]

\* the transition rule on a multiset of statuses
HealthRule(counts) ==
    IF counts["critical"] > 0 THEN "critical"
    ELSE IF counts["degraded"] > 2 THEN "degraded"
    ELSE "healthy"

Permutations5 == {p \in [1..5 -> 1..5] : \A i, j \in 1..5 : p[i] = p[j] => i = j}

\* the stored checks in another order
Reordered(hm, p) == [hm EXCEPT !.health_checks = [i \in 1..5 |-> hm.health_checks[p[i]]]]

\* C12: once checks have been run, the health run_health_checks returned, the
\* health get_health reads and the health _determine_overall_health reads are
\* all the one the rule gives for the multiset of the check statuses
\* (CRITICAL if any is critical, else DEGRADED if more than two are degraded,
\* else HEALTHY), in whatever order the checks are stored.
C12_HealthIsRuleOfStatuses ==
    health_monitor.health_checks # <<>> =>
        LET rule == HealthRule(StatusCounts(health_monitor.health_checks))
        IN  /\ ret.op = "run_health_checks" => ret.val[1] = rule
            /\ \A p \in Permutations5 :
                  /\ get_health(Reordered(health_monitor, p)) = rule
                  /\ determine_overall_health(Reordered(health_monitor, p)) = rule

\* three degraded checks and none critical, read by get_health
C12_Witness ==
    /\ ret.op = "get_health"
    /\ ret.val[1] = "degraded"
    /\ StatusCounts(health_monitor.health_checks)["degraded"] = 3

----------------------------------------------------------------------------
(* Properties of the safety system *)

\* the levels from best to worst; "not run" is the level of a sub-check the
\* context did not ask for
LevelRank(level) ==
    CASE level = "not run" -> 0
      [] level = "safe" -> 1
      [] level = "warning" -> 2
      [] level = "dangerous" -> 3
      [] level = "reject" -> 4

\* the worst level among the results; SAFE when none ran
WorstLevel(results) ==
    LET worst == CHOOSE i \in DOMAIN results :
                     \A j \in DOMAIN results :
                         LevelRank(results[j].level) <= LevelRank(results[i].level)
    IN  IF results[worst].level = "not run" THEN "safe" ELSE results[worst].level

RECURSIVE ConcatIssues(_)
ConcatIssues(results) ==
    IF results = <<>> THEN <<>>
    ELSE results[1].issues \o ConcatIssues(Tail(results))

\* C13: pre_execution_check returns REJECT with passed false exactly when a
\* sub-check it ran reported REJECT; otherwise WARNING exactly when a sub-check
\* reported a warning; otherwise SAFE.  The level is the worst level of the
\* sub-checks and the issues are the sub-checks' issues one after the other.
C13_VerdictIsWorstSubCheck ==
    ret.op = "pre_execution_check" =>
        LET res == ret.val[1]
            ran == ret.val[2]
            anyReject == \E i \in DOMAIN ran : ran[i].level = "reject"
            anyWarning == \E i \in DOMAIN ran : ran[i].warnings # <<>>
        IN  /\ (res.level = "reject") <=> anyReject
            /\ res.passed <=> ~anyReject
            /\ (res.level = "warning") <=> (~anyReject /\ anyWarning)
            /\ (res.level = "safe") <=> (~anyReject /\ ~anyWarning)
            /\ res.level = WorstLevel(ran)
            /\ res.issues = ConcatIssues(ran)

\* a rejection that carries the issues of two sub-checks, the transaction
\* check's two before the strategy check's one
C13_Witness ==
    /\ ret.op = "pre_execution_check"
    /\ ret.val[1].level = "reject"
    /\ ret.val[1].issues = <<"NONCE TOO LOW", "NONCE CONFLICT", "OPPORTUNITY EXPIRED">>
    /\ ret.val[1].warnings # <<>>

\* the simulation check's finding on the results it holds: ten or more, and
\* under min_success_rate of them simulated successes
LowSimulationRate(sp) ==
    /\ Len(sp.simulation_results) >= 10
    /\ CountResults(sp.simulation_results, LAMBDA r : r.simulated_success) * 100
           < min_success_rate_pct * Len(sp.simulation_results)

\* C14: a REJECT finding of any of the seven sub-checks makes the verdict of
\* pre_execution_check REJECT: one of the sub-checks it ran, the builder
\* check's bundle-overwrite finding for the bundle of the trade, or the
\* simulation check's finding of a success rate under the floor.
C14_AnyRejectFindingRejects ==
    ret.op = "pre_execution_check" =>
        LET res == ret.val[1]
            ran == ret.val[2]
            context == ret.val[3]
            finding ==
                \/ \E i \in DOMAIN ran : ran[i].level = "reject"
                \/ /\ "bundle_hash" \in DOMAIN context
                   /\ verify_bundle_not_overwritten(safety.builder, context.bundle_hash,
                                                    now).level = "reject"
                \/ LowSimulationRate(safety.simulation)
        IN  finding => res.level = "reject"

\* the block at the tracked chain tip
TrackedTip(cp) == cp.block_history[Len(cp.block_history)]

\* C15: with a tracked chain tip, verify_block_state returns REJECT with a
\* reorg issue for a block whose parent_hash is not the hash of the tip and
\* whose number is within reorg_threshold of the tip's, and SAFE for a block
\* whose parent_hash is the hash of the tip, whose base fee is no spike and
\* whose timestamp has not drifted.
C15_ReorgRejected ==
    [][ (ret'.op = "verify_block_state" /\ safety.consensus.last_block_hash # NoHash) =>
          LET cp == safety.consensus
              res == ret'.val[1]
              block == ret'.val[2]
              mismatch == block.parent_hash # cp.last_block_hash
              near == Abs(block.block_number - TrackedTip(cp).block_number)
                          <= reorg_threshold_blocks
              spike == block.base_fee
                          > cp.base_fee_history[Len(cp.base_fee_history)]
                              * max_base_fee_spike
              drift == Abs(now - block.timestamp) > timestamp_drift_window * 2
          IN  /\ (mismatch /\ near) =>
                    /\ res.level = "reject"
                    /\ ~res.passed
                    /\ \E i \in DOMAIN res.issues : res.issues[i] = "REORG DETECTED"
              /\ (~mismatch /\ ~spike /\ ~drift) =>
                    (res.level = "safe" /\ res.passed) ]_vars

\* a block exactly reorg_threshold above the tip, with another parent, rejected
C15_Witness ==
    /\ ret.op = "verify_block_state"
    /\ ret.val[1].level = "reject"
    /\ safety.consensus.last_block_hash # NoHash
    /\ ret.val[2].block_number - TrackedTip(safety.consensus).block_number
          = reorg_threshold_blocks

\* C36: a verify_block_state call that returns REJECT leaves block_history,
\* last_block_hash and base_fee_history as they were, and every call that does
\* not return REJECT appends the block to block_history, its base fee to
\* base_fee_history, and makes its hash the tracked tip.
C36_RejectLeavesConsensus ==
    [][ ret'.op = "verify_block_state" =>
          LET cp == safety.consensus
              after == safety'.consensus
              block == ret'.val[2]
          IN  IF ret'.val[1].level = "reject"
              THEN after = cp
              ELSE /\ after.block_history = LastN(Append(cp.block_history, block), 10)
                   /\ after.base_fee_history
                        = LastN(Append(cp.base_fee_history, block.base_fee), 20)
                   /\ after.last_block_hash = block.block_hash ]_vars

\* a block at the height of the tip and with another parent is rejected when
\* two blocks are tracked
C36_Witness ==
    /\ ret.op = "verify_block_state"
    /\ ret.val[1].level = "reject"
    /\ Len(safety.consensus.block_history) = 2
    /\ ret.val[2].block_number = TrackedTip(safety.consensus).block_number

\* the last call did not reject and its block is the tracked tip
TipAdopted ==
    /\ ret.op = "verify_block_state"
    /\ ret.val[1].level # "reject"
    /\ safety.consensus.last_block_hash = ret.val[2].block_hash

\* C35: after a reorg REJECT, when blocks keep arriving on the new fork with
\* increasing block numbers, verify_block_state eventually stops rejecting and
\* adopts the new chain tip.
C35_ReorgRejectEnds ==
    (ret.op = "verify_block_state" /\ ret.val[1].level = "reject") ~> TipAdopted

\* a fork that started under the tracked tip is adopted at the first block
\* more than reorg_threshold above it, after its earlier blocks were rejected
C35_Witness ==
    /\ OnFork
    /\ TipAdopted
    /\ Len(safety.consensus.block_history) >= 2
    /\ ret.val[2].block_number
          - safety.consensus.block_history[Len(safety.consensus.block_history) - 1]
                .block_number = reorg_threshold_blocks + 1
    /\ ret.val[2].parent_hash = ForkHash(ret.val[2].block_number - 1)

\* the staleness bound of a source
StalenessBound(source) ==
    IF source = "chainlink" THEN chainlink_staleness ELSE twap_staleness

\* C16: verify_price_fresh returns REJECT for a price that is older than the
\* staleness bound of its source, and SAFE for a price that is younger than
\* the bound and within max_price_deviation of the last observed price.
C16_StalePriceRejected ==
    [][ ret'.op = "verify_price_fresh" =>
          LET res == ret'.val[1]
              price_data == ret'.val[2]
              token == ret'.val[3]
              age == now - price_data.timestamp
              seen == token \in DOMAIN safety.oracle.oracle_prices
              old_price == safety.oracle.oracle_prices[token].price
              deviates == /\ seen
                          /\ Abs(price_data.price - old_price) * 100
                                > max_price_deviation_pct * old_price
          IN  /\ age > StalenessBound(price_data.source) => res.level = "reject"
              /\ (age < StalenessBound(price_data.source) /\ ~deviates)
                    => res.level = "safe" ]_vars

\* the nonces of the transactions recorded for a sender
SenderNonces(tp, from_address) ==
    {key[2] : key \in {k \in DOMAIN tp.pending_txs : k[1] = from_address}}

\* the sender's transactions so far carry the nonces of one unbroken run and
\* nonce is the next one
NextInRun(tp, from_address, nonce) ==
    /\ from_address \in DOMAIN tp.pending_nonces
    /\ tp.pending_nonces[from_address] = nonce
    /\ \E first \in SenderNonces(tp, from_address) :
          SenderNonces(tp, from_address) = first..(nonce - 1)

\* C17: verify_transaction_safe returns REJECT for a nonce under the sender's
\* tracked next nonce, and for a transaction whose sender and nonce are those
\* of a recorded pending transaction with another destination or other data;
\* it does not reject the first transaction of a sender, nor the transaction
\* that continues the sender's run of consecutive nonces.
C17_NonceChecks ==
    [][ ret'.op = "verify_transaction_safe" =>
          LET tp == safety.transaction
              res == ret'.val[1]
              tx == ret'.val[2]
              key == PendingKey(tx.from_address, tx.nonce)
              tracked == tx.from_address \in DOMAIN tp.pending_nonces
          IN  /\ (tracked /\ tx.nonce < tp.pending_nonces[tx.from_address])
                    => (res.level = "reject" /\ ~res.passed)
              /\ (/\ key \in DOMAIN tp.pending_txs
                  /\ \/ tp.pending_txs[key].to # tx.to_address
                     \/ tp.pending_txs[key].data # tx.data)
                    => (res.level = "reject" /\ ~res.passed)
              /\ (~tracked \/ NextInRun(tp, tx.from_address, tx.nonce))
                    => (res.level # "reject" /\ res.passed) ]_vars

\* C33: a verify_transaction_safe call that returns REJECT leaves pending_nonces
\* and pending_txs as they were, and the tracked next nonce of a sender never
\* decreases over any sequence of calls.
C33_RejectLeavesTracking ==
    [][ ret'.op = "verify_transaction_safe" =>
          LET tp == safety.transaction
              after == safety'.transaction
          IN  /\ ret'.val[1].level = "reject" => after = tp
              /\ \A from_address \in DOMAIN tp.pending_nonces :
                    after.pending_nonces[from_address]
                        >= tp.pending_nonces[from_address] ]_vars

\* after a run of three consecutive nonces, a transaction with the second
\* nonce and another destination is rejected on both counts
C17_Witness ==
    /\ ret.op = "verify_transaction_safe"
    /\ ret.val[1].level = "reject"
    /\ ret.val[1].issues = <<"NONCE TOO LOW", "NONCE CONFLICT">>
    /\ ret.val[2].nonce = 8
    /\ SenderNonces(safety.transaction, "0xA") = 7..9

\* C18: verify_simulation_accuracy returns REJECT whenever under
\* min_success_rate of the results in the window, the one just recorded
\* included, are simulated successes; and it warns (level WARNING unless it
\* rejects) whenever under 90% of the results whose actual outcome is known
\* have the simulated outcome equal to the actual one.
C18_LowRateRejected ==
    ret.op = "verify_simulation_accuracy" =>
        LET res == ret.val[1]
            results == safety.simulation.simulation_results
            successes == CountResults(results, LAMBDA r : r.simulated_success)
            known == CountResults(results, LAMBDA r : r.actual_success # "None")
            agreeing == CountResults(results,
                            LAMBDA r : /\ r.actual_success # "None"
                                       /\ r.simulated_success = (r.actual_success = "True"))
            rateLow == successes * 100 < min_success_rate_pct * Len(results)
            agreementLow == known > 0 /\ agreeing * 100 < min_match_rate_pct * known
        IN  /\ rateLow => res.level = "reject"
            /\ agreementLow =>
                  /\ res.warnings # <<>>
                  /\ ~rateLow => res.level = "warning"

\* C19: check_rpc_health returns REJECT whenever the probe times out or
\* fails, and whenever the endpoint reports a block number under the one it
\* reported on the previous probe that carried one.
C19_DesyncRejected ==
    [][ ret'.op = "check_rpc_health" =>
          LET res == ret'.val[1]
              probe == ret'.val[2]
              previous == safety.network.last_block_from_rpc
          IN  /\ probe.kind \in {"timeout", "error"} => res.level = "reject"
              /\ (/\ probe.kind = "response"
                  /\ probe.body = "result"
                  /\ previous > 0
                  /\ probe.block < previous)
                    => res.level = "reject" ]_vars

----------------------------------------------------------------------------
(* Properties of the profit verification *)

PriceSourceFailed(env) ==
    \/ env.live \in {"none", "raises"}
    \/ env.live = "absent" /\ env.gecko = "fails"

\* C23: when the live price source fails or returns no price, the calculation
\* still returns an estimate, and the confidence of that estimate is lower
\* than the confidence the same trade gets in the same state when the source
\* answers.
C23_FallbackLowersConfidence ==
    (ret.op = "calculate_estimated_profit" /\ PriceSourceFailed(ret.val[3]))
        => ret.val[1].confidence < ret.val[4]

----------------------------------------------------------------------------
(* Properties of the reliability manager *)

AtMostOneLoop ==
    Cardinality({i \in DOMAIN manager.tasks : manager.tasks[i] \in Active}) <= 1

\* C38: for any sequence of start and stop calls at most one monitoring loop
\* is active at any time, and once the manager is stopped no monitoring loop
\* goes on to finish a health check or a recovery action.
C38_OneMonitoringLoop ==
    /\ []AtMostOneLoop
    /\ [][ ~manager.is_running
              => ret'.op \notin {"run_health_checks", "check_and_recover"} ]_vars

----------------------------------------------------------------------------
(* Properties of the workers of the fail-safe *)

\* C34: with several concurrent workers each calling check_trading_allowed,
\* then record_trade, then complete_trade on one FailSafeManager, the number
\* of active trades stays between 0 and max_concurrent_trades in every
\* reachable state, under every interleaving of the workers' calls.
C34_WorkersWithinLimit ==
    /\ 0 <= fail_safe.active_trades
    /\ fail_safe.active_trades <= fs_max_concurrent_trades

----------------------------------------------------------------------------
(* Properties of the bundle submission *)

\* at most max_retries attempts were begun; an acceptance ends the call at
\* once with success; a call that ended without one reports failure
RetryOutcome ==
    /\ submitter.attempts <= submitter.max_retries
    /\ submitter.accepted <= 1
    /\ submitter.accepted = 1 => submitter.pc = "done" /\ submitter.success
    /\ submitter.accepted = 0 => ~submitter.success

\* C30: a bundle submission with retry ends after at most max_retries
\* attempts, with success as soon as one relay accepts the bundle and with
\* failure when no relay accepted in any attempt
C30_RetryTerminates ==
    /\ []RetryOutcome
    /\ (submitter.pc \in {"attempt", "sleep"}) ~> (submitter.pc = "done")

\* the third and last attempt of the builder's submission was accepted after
\* an exception in an earlier one
C30_Witness ==
    /\ submitter.pc = "done"
    /\ submitter.who = "builder"
    /\ submitter.success
    /\ submitter.attempts = 3
    /\ submitter.errors > 0

----------------------------------------------------------------------------
(* Properties of the profit wait *)

WaitThreshold == min_profit_threshold * 100

\* C29: a call of wait_for_profit_increase that has ended has returned, for
\* every max_wait_time: either (True, estimate) with the estimate of the first
\* poll whose net profit is at least the threshold, or (False, estimate) with
\* the estimate of the last poll, once max_wait_time has elapsed
C29_WaitReturns ==
    waiter.pc \in {"returned", "raised"}
        => /\ waiter.pc = "returned"
           /\ Len(waiter.polls) > 0
           /\ waiter.estimate.net_profit = waiter.polls[Len(waiter.polls)]
           /\ \A i \in 1..(Len(waiter.polls) - 1) : waiter.polls[i] < WaitThreshold
           /\ IF waiter.ok
              THEN waiter.polls[Len(waiter.polls)] >= WaitThreshold
              ELSE /\ waiter.polls[Len(waiter.polls)] < WaitThreshold
                   /\ now - waiter.start_time >= waiter.max_wait_time

----------------------------------------------------------------------------
(* Properties of the executor *)

\* C24: execute_concurrent never runs more than max_concurrent tasks at once,
\* active_tasks is the number of tasks running and stays within
\* 0..max_concurrent, and it is 0 once every task has returned, raised or been
\* cancelled.
C24_ActiveTasksBounded ==
    LET running == {t \in DOMAIN multi_executor.tasks :
                        multi_executor.tasks[t] = "running"}
    IN  /\ Cardinality(running) <= max_concurrent
        /\ multi_executor.active_tasks = Cardinality(running)
        /\ multi_executor.active_tasks \in 0..max_concurrent
        /\ (\A t \in DOMAIN multi_executor.tasks : multi_executor.tasks[t] \in Finished)
              => multi_executor.active_tasks = 0

\* a call of more tasks than permits has ended, one task having raised and
\* one having been cancelled while it ran
C24_Witness ==
    /\ Len(multi_executor.tasks) > max_concurrent
    /\ \A t \in DOMAIN multi_executor.tasks : multi_executor.tasks[t] \in Finished
    /\ \E t \in DOMAIN multi_executor.tasks : multi_executor.tasks[t] = "raised"
    /\ ret.op = "limited_execute" /\ ret.val[2] = "cancelled"
    /\ multi_executor.active_tasks = 0

----------------------------------------------------------------------------
(* Properties of the trade pipeline *)

RiskCounters(rm) ==
    <<rm.total_trades, rm.failed_trades, rm.daily_loss, rm.daily_profit>>

RECURSIVE SuccessProfit(_)
SuccessProfit(results) ==
    IF results = <<>> THEN 0
    ELSE (IF Head(results).success THEN Head(results).profit ELSE 0)
            + SuccessProfit(Tail(results))

C26_NoExceptionLeavesGate ==
    /\ ret.op = "pre_execution_check" => ret.val[2] = "none"
    /\ (ret.op = "_execute_trade" /\ ret.val[4].profit = "raised")
          => ~ret.val[1] /\ ret.val[3] # "none"

\* the trading loop has executed an opportunity and booked its result
ExecutionReached == ret.op \in {"_execute_trade", "_execute_multiple_trades"}

StopObserved ==
    /\ pc.trading \in {"health", "recover"}
    /\ pc'.trading = "sleep"
    /\ \/ fail_safe.is_emergency_stopped
       \/ /\ ret'.op = "check_and_recover"
          /\ ret'.val = <<"emergency_stop", "critical", "trading">>

----------------------------------------------------------------------------
(* Properties of the trading engines *)

\* C1: a successful TradeExecutionResult is produced for an opportunity only
\* if, in the same pass, the risk gate allowed trading, the profit verifier
\* approved it and the safety gate answered SAFE or WARNING.
C1_ExecutionNeedsAllGates ==
    (ret.op = "_execute_trade" /\ ret.val[1])
        => /\ ret.val[4].risk = "allowed"
           /\ ret.val[4].profit = "approved"
           /\ ret.val[4].safety \in {"SAFE", "WARNING"}

====
